---- MODULE Spec2Model ----
(***************************************************************************)
(* packetpony: the concurrent forwarding engine.                           *)
(*                                                                         *)
(* The module models the sliding-window rate limiters, the                 *)
(* RateLimitManager, the TCP pipeline (TCPProxy.HandleConnection under a   *)
(* TCPListener), the UDP pipeline (UDPProxy.HandlePacket, the per-session  *)
(* upstream reader, SessionManager) and Manager.GracefulShutdown.          *)
(*                                                                         *)
(* Time is a discrete clock `now`; time.Now() reads it and Tick advances   *)
(* it.  ts.After(cutoff) is ts > cutoff, ts.Before(cutoff) is ts < cutoff. *)
(***************************************************************************)
EXTENDS Integers, Sequences, FiniteSets, TLC

(***************************************************************************)
(* Bounds of the model.                                                    *)
(***************************************************************************)
\* the clock runs from 0 to MaxTime
MaxTime == 4
\* ConnectionLimiter calls (Allow that succeed) per IP in the limiter specification
MaxAllows == 3

\* source addresses
IPs == {"ip1", "ip2", "ip3"}
\* the address the limiter specification calls the ConnectionLimiter for
LimIPs == {"ip1"}

VARIABLES
    now,          \* the clock read by time.Now()
    cfg,          \* the listener's RateLimitConfig (immutable after Init)
    connections,  \* ConnectionLimiter.connections: ip -> connEntry
    attempts,     \* AttemptLimiter.attempts: ip -> attemptEntry
    buckets,      \* BandwidthLimiter.buckets: ip -> bandwidthBucket
    totalConns,   \* RateLimitManager.totalConns (atomic int64)
    \* history variables of the limiter specification
    held,         \* ip -> successful Allow calls not yet matched by a Release
    allowLog,     \* ip -> times of the successful Allow calls, in order
    relIdx,       \* ip -> indices of allowLog whose timestamp a Release removed
    relCalls,     \* ip -> the Release calls in order: [t: time, had: count before > 0]
    firstCall,    \* ip -> time of the first limiter call for the ip, -1 if none
    rejected,     \* ip -> TRUE once an Allow for the ip has returned false
    lastAllow,    \* the most recent Allow call: [ip, ret, heldBefore, inWindow]
    \* the listener and its RateLimitManager
    allowlist,    \* Allowlist.rules: a sequence of prefixes, each the set of its addresses
    listening,    \* the listen socket is open (TCPListener.listener / UDPListener.conn)
    lctx,         \* the listener's context: "live" or "cancelled"
    loopPc,       \* acceptLoop / readLoop position
    rlClosed,     \* RateLimitManager.Close has been called (the reclaimers stopped)
    \* TCP pipeline: one HandleConnection goroutine per accepted connection
    tpc,          \* conn -> position of the handler
    tip,          \* conn -> source address
    dir,          \* conn -> [c2t, t2c]: state of each copyWithStats goroutine
    admitted,     \* conn -> AllowConnection returned true
    relConnN,     \* conn -> number of ReleaseConnection calls of the handler
    relTotalN,    \* conn -> number of ReleaseTotalConnection calls after admission
    openN,        \* conn -> number of open events logged
    closeN,       \* conn -> number of close events logged
    sockClosed,   \* conn -> the handler has closed the client socket
    gauge,        \* metrics.ConnectionsActive of the listener
    \* Manager.GracefulShutdown
    mpc,          \* position of GracefulShutdown
    gsTimeout,    \* its timeout argument
    gsStart,      \* the time it was called, -1 before
    selStart,     \* the time its select started (time.After is armed), -1 before
    doneClosed,   \* the waiter goroutine has closed the done channel
    gsResult,     \* "" while running, then "nil" or "timeout"
    lateInFlight, \* a connection was still being copied when the timeout elapsed
    \* UDP: SessionManager, UDPProxy, UDPListener.readLoop
    ucfg,         \* the listener's UDPConfig: session_timeout and the logging options
    sessions,     \* SessionManager.sessions: key -> session object, 0 if absent
    sess,         \* the Session objects ever created, by number
    nextSess,     \* number of Session objects created so far
    hpc,          \* position of readLoop in HandlePacket, and the packet's session
    janitorStopped, \* SessionManager.stopCleanup is closed
    ugauge,       \* metrics.ConnectionsActive of the UDP listener
    \* the admission race: two concurrent AllowConnection calls
    snap,         \* the limiters' state when the two calls start
    \* history variables of the bandwidth and attempt specifications
    bwLog,        \* the AllowBandwidth calls so far: [t, bytes, ret]
    lastBw,       \* the last AllowBandwidth call: its unexpired entries before and after
    bwDrops,      \* rate_limit_drops{bandwidth_limit}
    attLog,       \* the RecordAttempt calls so far: [t, ret]
    \* the allowlist specification
    aclEntries,   \* the configured allowlist entries NewAllowlist was given
    aclLast,      \* the last IsAllowed call: [ip, ret]
    \* metrics of a listener's ACL check
    aclDrops,     \* acl_drops
    aclDenied,    \* connections_total{status="acl_denied"}
    \* Manager.Start over several listeners
    lsns,         \* each listener: its socket, its loop, its context, its handlers
    startPc,      \* position of Manager.Start
    startTodo,    \* listeners the range loop of Start has not reached
    stopTodo,     \* listeners the range loop of Stop has not reached
    stopCur,      \* the listener whose Stop is waiting in wg.Wait, "" if none
    \* TCP: the byte counters and the close event of each connection
    accepted,     \* bytes read from the client that AllowBandwidth accepted
    written,      \* copyWithStats' written of the client-to-target direction
    sentAdded,    \* what the connection added to bytes_transferred_total{sent}
    closeErr,     \* the close event's error: "none" before, then "clean" or "error"
    \* concurrent SessionManager.GetOrCreate calls for one source address
    gpc,          \* position of each call
    gret,         \* what each call returned: the session, is_new, the error
    gmu,          \* the holder of SessionManager.mu's write lock, 0 if none
    \* a ConnectionLimiter.Allow call between its map lookup and its update
    rcall,        \* position, ip, and the entry it holds once cleanup detached it
    shadowConns,  \* the connection records as they would be with no cleanup pass
    shadowAtts,   \* the attempt records as they would be with no cleanup pass
    rres,         \* the last call's result, its result on the shadow records, and
                  \* whether it updated the record the map holds
    \* one Session's traffic counters and periodic-log watermarks
    plog          \* counters, watermarks, and the last call on them with its result

limVars == <<connections, attempts, buckets, totalConns>>
histVars == <<held, allowLog, relIdx, relCalls, firstCall, rejected, lastAllow>>

lsnVars == <<allowlist, listening, lctx, loopPc, rlClosed>>
tcpVars == <<tpc, tip, dir, admitted, relConnN, relTotalN, openN, closeN, sockClosed, gauge>>
mgrVars == <<mpc, gsTimeout, gsStart, selStart, doneClosed, gsResult, lateInFlight>>
udpVars == <<ucfg, sessions, sess, nextSess, hpc, janitorStopped, ugauge>>
admVars == <<snap>>
fnVars == <<bwLog, lastBw, bwDrops, attLog>>
aclVars == <<aclEntries, aclLast, aclDrops, aclDenied>>
bootVars == <<lsns, startPc, startTodo, stopTodo, stopCur>>
statVars == <<accepted, written, sentAdded, closeErr>>
gocVars == <<gpc, gret, gmu>>
raceVars == <<rcall, shadowConns, shadowAtts, rres>>
perVars == <<plog>>
ctlVars == <<bootVars, gocVars, raceVars, perVars>>
moreVars == <<ctlVars, statVars>>
auxVars == <<admVars, fnVars, aclVars, moreVars>>
pipeVars == <<lsnVars, tcpVars, mgrVars, udpVars, auxVars>>

vars == <<now, cfg, limVars, histVars, pipeVars>>

(***************************************************************************)
(* Helpers on sequences.                                                   *)
(***************************************************************************)
Max2(a, b) == IF a >= b THEN a ELSE b

RECURSIVE SumBytes(_)
SumBytes(es) == IF es = <<>> THEN 0 ELSE Head(es).bytes + SumBytes(Tail(es))

(***************************************************************************)
(* ConnectionLimiter (internal/ratelimit/connection_limiter.go)            *)
(***************************************************************************)
\* a map slot with no record
NoConnEntry == [present |-> FALSE, count |-> 0, timestamps |-> <<>>]

\* the "Remove expired timestamps" loop of Allow: keeps ts with ts.After(now - window)
ValidTimestamps(tss, t, window) == SelectSeq(tss, LAMBDA ts : ts > t - window)

\* the limit test of Allow, on the count recomputed from the valid timestamps
ConnLimitExceeded_OffByOne(count, maxPerIP) == count > maxPerIP
ConnLimitExceeded(count, maxPerIP) == count >= maxPerIP

\* ConnectionLimiter.Allow on the ip's entry e at time t: <<result, entry after>>
ConnAllow(e, t, maxPerIP, window) ==
    LET valid == ValidTimestamps(e.timestamps, t, window)
        count == Len(valid)
    IN  IF ConnLimitExceeded(count, maxPerIP)
        THEN <<FALSE, [present |-> TRUE, count |-> count, timestamps |-> valid]>>
        ELSE <<TRUE, [present |-> TRUE, count |-> count + 1,
                      timestamps |-> Append(valid, t)]>>

\* ConnectionLimiter.Release on the ip's entry e: the entry after
ConnRelease_KeepTimestamp(e) ==
    IF ~e.present THEN e
    ELSE IF e.count > 0 THEN [e EXCEPT !.count = @ - 1]
    ELSE e
ConnRelease(e) ==
    IF ~e.present THEN e
    ELSE IF e.count > 0
         THEN [e EXCEPT !.count = @ - 1,
                        !.timestamps = IF Len(@) > 0 THEN Tail(@) ELSE @]
         ELSE e

\* ConnectionLimiter.cleanup on one entry: TRUE when the record is deleted
ConnCleanupDeletes(e, t, window) ==
    /\ e.present
    /\ \/ /\ e.count = 0
          /\ Len(e.timestamps) > 0
          /\ e.timestamps[Len(e.timestamps)] < t - 2 * window
       \/ /\ e.count = 0
          /\ Len(e.timestamps) = 0

ConnCleanup(conns, t, window) ==
    [ip \in DOMAIN conns |->
        IF ConnCleanupDeletes(conns[ip], t, window) THEN NoConnEntry ELSE conns[ip]]

(***************************************************************************)
(* AttemptLimiter (internal/ratelimit/attempt_limiter.go)                  *)
(***************************************************************************)
NoAttemptEntry == [present |-> FALSE, timestamps |-> <<>>]

\* AttemptLimiter.RecordAttempt on the ip's entry e at time t: <<result, entry after>>
RecordAttempt_SkipsRejected(e, t, maxPerIP, window) ==
    LET valid == ValidTimestamps(e.timestamps, t, window)
    IN  <<Len(valid) < maxPerIP,
          [present |-> TRUE,
           timestamps |-> IF Len(valid) < maxPerIP THEN Append(valid, t) ELSE valid]>>
RecordAttempt(e, t, maxPerIP, window) ==
    LET valid == ValidTimestamps(e.timestamps, t, window)
    IN  <<Len(valid) < maxPerIP,
          [present |-> TRUE, timestamps |-> Append(valid, t)]>>

\* an AttemptLimiter.cleanup that deletes only empty records
AttemptCleanupDeletes_OnlyEmpty(e, t, window) ==
    /\ e.present
    /\ Len(e.timestamps) = 0

\* AttemptLimiter.cleanup on one entry: TRUE when the record is deleted
AttemptCleanupDeletes(e, t, window) ==
    /\ e.present
    /\ IF Len(e.timestamps) > 0
       THEN e.timestamps[Len(e.timestamps)] < t - 2 * window
       ELSE TRUE

(***************************************************************************)
(* BandwidthLimiter (internal/proxy/tcp_proxy.go, package ratelimit)       *)
(***************************************************************************)
NoBucket == [present |-> FALSE, entries |-> <<>>]

ValidEntries_ShortWindow(es, t, window) ==
    SelectSeq(es, LAMBDA e : e.timestamp > t - window + 1)
ValidEntries(es, t, window) == SelectSeq(es, LAMBDA e : e.timestamp > t - window)

BandwidthAllow_RecordsDenied(b, bytes, t, maxPerIP, window, action, throttleMinimum) ==
    IF bytes = 0 THEN <<TRUE, b>>
    ELSE
    LET valid == ValidEntries(b.entries, t, window)
        currentUsage == SumBytes(valid)
        pruned == [present |-> TRUE, entries |-> valid]
        recorded == [present |-> TRUE,
                     entries |-> Append(valid, [bytes |-> bytes, timestamp |-> t])]
    IN  IF currentUsage + bytes > maxPerIP
        THEN CASE action = "log_only" -> <<TRUE, recorded>>
               [] action = "throttle" ->
                    IF throttleMinimum > 0 /\ bytes <= throttleMinimum
                    THEN <<TRUE, recorded>>
                    ELSE <<FALSE, pruned>>
               [] OTHER -> <<FALSE, recorded>>
        ELSE <<TRUE, recorded>>
BandwidthAllow_ThrottleIgnoresSize(b, bytes, t, maxPerIP, window, action, throttleMinimum) ==
    IF bytes = 0 THEN <<TRUE, b>>
    ELSE
    LET valid == ValidEntries(b.entries, t, window)
        currentUsage == SumBytes(valid)
        pruned == [present |-> TRUE, entries |-> valid]
        recorded == [present |-> TRUE,
                     entries |-> Append(valid, [bytes |-> bytes, timestamp |-> t])]
    IN  IF currentUsage + bytes > maxPerIP
        THEN CASE action = "log_only" -> <<TRUE, recorded>>
               [] action = "throttle" ->
                    IF throttleMinimum > 0
                    THEN <<TRUE, recorded>>
                    ELSE <<FALSE, pruned>>
               [] OTHER -> <<FALSE, pruned>>
        ELSE <<TRUE, recorded>>
BandwidthAllow_LogOnlyNotRecorded(b, bytes, t, maxPerIP, window, action, throttleMinimum) ==
    IF bytes = 0 THEN <<TRUE, b>>
    ELSE
    LET valid == ValidEntries(b.entries, t, window)
        currentUsage == SumBytes(valid)
        pruned == [present |-> TRUE, entries |-> valid]
        recorded == [present |-> TRUE,
                     entries |-> Append(valid, [bytes |-> bytes, timestamp |-> t])]
    IN  IF currentUsage + bytes > maxPerIP
        THEN CASE action = "log_only" -> <<TRUE, pruned>>
               [] action = "throttle" ->
                    IF throttleMinimum > 0 /\ bytes <= throttleMinimum
                    THEN <<TRUE, recorded>>
                    ELSE <<FALSE, pruned>>
               [] OTHER -> <<FALSE, pruned>>
        ELSE <<TRUE, recorded>>
\* BandwidthLimiter.Allow on the ip's bucket b at time t: <<result, bucket after>>
BandwidthAllow(b, bytes, t, maxPerIP, window, action, throttleMinimum) ==
    IF bytes = 0 THEN <<TRUE, b>>
    ELSE
    LET valid == ValidEntries(b.entries, t, window)
        currentUsage == SumBytes(valid)
        pruned == [present |-> TRUE, entries |-> valid]
        recorded == [present |-> TRUE,
                     entries |-> Append(valid, [bytes |-> bytes, timestamp |-> t])]
    IN  IF currentUsage + bytes > maxPerIP
        THEN CASE action = "log_only" -> <<TRUE, recorded>>
               [] action = "throttle" ->
                    IF throttleMinimum > 0 /\ bytes <= throttleMinimum
                    THEN <<TRUE, recorded>>
                    ELSE <<FALSE, pruned>>
               [] OTHER -> <<FALSE, pruned>>
        ELSE <<TRUE, recorded>>

\* BandwidthLimiter.IsOverLimit: reads the bucket, changes nothing
IsOverLimit(b, bytes, t, maxPerIP, window) ==
    IF bytes = 0 THEN FALSE
    ELSE IF ~b.present THEN FALSE
    ELSE SumBytes(ValidEntries(b.entries, t, window)) + bytes > maxPerIP

\* BandwidthLimiter.cleanup on one bucket: TRUE when the bucket is deleted
BandwidthCleanupDeletes(b, t, window) ==
    /\ b.present
    /\ IF Len(b.entries) = 0 THEN TRUE
       ELSE b.entries[Len(b.entries)].timestamp < t - 2 * window

(***************************************************************************)
(* RateLimitManager (package ratelimit): which limiters exist              *)
(***************************************************************************)
\* NewRateLimitManager: a limiter is built only when its limit and window are > 0
HasConnLimiter(c) == c.maxConnPerIP > 0 /\ c.connWindow > 0
HasAttemptLimiter(c) == c.maxAttempts > 0 /\ c.attemptWindow > 0
HasBandwidthLimiter(c) == c.maxBW > 0 /\ c.bwWindow > 0

\* NewRateLimitManager / NewBandwidthLimiter: the action defaults to "drop"
BandwidthAction(c) == IF c.action = "" THEN "drop" ELSE c.action

\* RateLimitManager.GetAction
GetAction(c) == IF c.action = "" THEN "drop" ELSE c.action

\* AllowTotalConnection: the test on the value returned by atomic.AddInt64(+1)
TotalLimitExceeded_OffByOne(current, maxTotalConns) == current > maxTotalConns + 1
TotalLimitExceeded(current, maxTotalConns) == current > maxTotalConns

\* RateLimitManager.AllowBandwidth: <<result, bucket after>>
AllowBandwidth(c, b, bytes, t) ==
    IF HasBandwidthLimiter(c)
    THEN BandwidthAllow(b, bytes, t, c.maxBW, c.bwWindow, BandwidthAction(c), c.throttleMin)
    ELSE <<TRUE, b>>

\* RateLimitManager.IsBandwidthOverLimit
IsBandwidthOverLimit(c, b, bytes, t) ==
    IF HasBandwidthLimiter(c) THEN IsOverLimit(b, bytes, t, c.maxBW, c.bwWindow) ELSE FALSE

\* RateLimitManager.ReleaseConnection on the connection map
ReleaseConnection(c, conns, ip) ==
    IF HasConnLimiter(c) THEN [conns EXCEPT ![ip] = ConnRelease(@)] ELSE conns

\* RateLimitManager.ReleaseTotalConnection on the counter
ReleaseTotalConnection(c, total) ==
    IF c.maxTotal > 0 THEN total - 1 ELSE total

(***************************************************************************)
(* Configurations (RateLimitConfig of internal/config)                     *)
(***************************************************************************)
NoLimits == [maxConnPerIP |-> 0, connWindow |-> 0, maxAttempts |-> 0, attemptWindow |-> 0,
             maxBW |-> 0, bwWindow |-> 0, maxTotal |-> 0, action |-> "", throttleMin |-> 0]

\* configurations of the limiter specification: max_connections_per_ip 1 or 2, window 2
LimiterConfigs ==
    { [NoLimits EXCEPT !.maxConnPerIP = n, !.connWindow = 2] : n \in {1, 2} }

(***************************************************************************)
(* Initial values shared by the specifications                             *)
(***************************************************************************)
LimitersEmpty ==
    /\ connections = [ip \in IPs |-> NoConnEntry]
    /\ attempts = [ip \in IPs |-> NoAttemptEntry]
    /\ buckets = [ip \in IPs |-> NoBucket]
    /\ totalConns = 0

NoCall == [ip |-> "", ret |-> FALSE, heldBefore |-> 0, inWindow |-> FALSE]

HistoryEmpty ==
    /\ held = [ip \in IPs |-> 0]
    /\ allowLog = [ip \in IPs |-> <<>>]
    /\ relIdx = [ip \in IPs |-> {}]
    /\ relCalls = [ip \in IPs |-> <<>>]
    /\ firstCall = [ip \in IPs |-> -1]
    /\ rejected = [ip \in IPs |-> FALSE]
    /\ lastAllow = NoCall

\* connections a client may open on the TCP listener
Conns == {"c1", "c2"}
\* the source addresses of the connections: ip1 is in the allowlist, ip3 is not
SrcIPs == {"ip1", "ip3"}

\* a listener that has not been started; no connection accepted; no shutdown asked
ListenerNotStarted ==
    /\ listening = FALSE
    /\ lctx = "live"
    /\ loopPc = "none"
    /\ rlClosed = FALSE

TCPIdle ==
    /\ tpc = [c \in Conns |-> "new"]
    /\ tip = [c \in Conns |-> ""]
    /\ dir = [c \in Conns |-> [c2t |-> "idle", t2c |-> "idle"]]
    /\ admitted = [c \in Conns |-> FALSE]
    /\ relConnN = [c \in Conns |-> 0]
    /\ relTotalN = [c \in Conns |-> 0]
    /\ openN = [c \in Conns |-> 0]
    /\ closeN = [c \in Conns |-> 0]
    /\ sockClosed = [c \in Conns |-> FALSE]
    /\ gauge = 0

\* bounds of the UDP specification: Session objects ever created, the clock
MaxSess == 2
UdpMaxTime == 2
\* bound of the UDP specification: datagrams the ACL denies
MaxAclDrops == 1
\* bound of the UDP specification: datagrams the bandwidth limiter denies
MaxBwDrops == 1

\* source addresses (ip:port) of the UDP packets, and the ip of each
Keys == {"ip1:1", "ip1:2", "ip3:1"}
KeyIP(k) == IF k = "ip3:1" THEN "ip3" ELSE "ip1"

\* a Session object that has not been created
NoSession ==
    [key |-> "", lastActivity |-> 0, createdAt |-> 0, cancelled |-> FALSE,
     closed |-> FALSE, bytes |-> 0, rpc |-> "none", deadline |-> 0,
     admitted |-> FALSE, relConnN |-> 0, relTotalN |-> 0, openN |-> 0, closeN |-> 0,
     leftAt |-> -1, removeCalls |-> 0,
     logAt |-> 0, logBytes |-> 0, updN |-> 0, lateUpd |-> FALSE]

\* the UDPConfig of the TCP and limiter specifications (no UDP listener)
NoUDP == [sessionTimeout |-> 0, logStart |-> FALSE, logClose |-> FALSE,
          minLogBytes |-> 0, minLogDuration |-> 0,
          periodicInterval |-> 0, periodicBytes |-> 0, present |-> TRUE]

\* no admission race has been started
NoSnap == [taken |-> FALSE, calls |-> 0]

\* no AllowBandwidth or RecordAttempt call has been made
NoBwCall == [called |-> FALSE, t |-> 0, bytes |-> 0, ret |-> FALSE, before |-> <<>>, after |-> <<>>,
             logged |-> FALSE]

\* no IsAllowed call has been recorded
NoAclCheck == [called |-> FALSE]

\* the listeners of the Manager: two TCP listeners and a UDP listener
Listeners == {"tcp1", "tcp2", "udp1"}
\* a listener as NewTCPListener / NewUDPListener return it: no socket, no loop
NewListener == [sock |-> "none", loop |-> "none", ctx |-> "live", rlClosed |-> FALSE,
                handlers |-> 0]

\* NewManager: the listeners are created, Start has not been called
BootIdle ==
    /\ lsns = [l \in Listeners |-> NewListener]
    /\ startPc = "idle"
    /\ startTodo = {}
    /\ stopTodo = {}
    /\ stopCur = ""

\* no connection has copied anything or emitted its close event
StatIdle ==
    /\ accepted = [c \in Conns |-> 0]
    /\ written = [c \in Conns |-> 0]
    /\ sentAdded = [c \in Conns |-> 0]
    /\ closeErr = [c \in Conns |-> "none"]

\* bound: concurrent GetOrCreate calls
MaxCallers == 3
Callers == 1..MaxCallers
\* a call that has not returned
NoReturn == [sid |-> 0, isNew |-> FALSE, err |-> FALSE]

\* every GetOrCreate call is about to start
GocIdle ==
    /\ gpc = [p \in Callers |-> "call"]
    /\ gret = [p \in Callers |-> NoReturn]
    /\ gmu = 0

\* no Allow call in flight, the shadow records empty
NoRaceCall == [pc |-> "idle", ip |-> "", attached |-> TRUE, entry |-> NoConnEntry]
NoRaceResult == [kind |-> "none", ret |-> FALSE, shadowRet |-> FALSE, stored |-> TRUE]
RaceIdle ==
    /\ rcall = NoRaceCall
    /\ shadowConns = [ip \in IPs |-> NoConnEntry]
    /\ shadowAtts = [ip \in IPs |-> NoAttemptEntry]
    /\ rres = NoRaceResult

\* GetOrCreate's Session literal: counters 0, LastPeriodicLog now, no call made yet
\* (kind, at, interval, bytes, ret: the last call, its time, arguments and result)
NewPeriodic == [sent |-> 0, recv |-> 0, last |-> 0, lastBytes |-> 0,
                kind |-> "none", at |-> 0, interval |-> 0, bytes |-> 0, ret |-> FALSE]
PerIdle == plog = NewPeriodic

MoreIdle == BootIdle /\ StatIdle /\ GocIdle /\ RaceIdle /\ PerIdle

AuxIdle ==
    /\ aclEntries = <<>>
    /\ aclLast = NoAclCheck
    /\ aclDrops = 0
    /\ aclDenied = 0
    /\ MoreIdle
    /\ snap = NoSnap
    /\ bwLog = <<>>
    /\ lastBw = NoBwCall
    /\ bwDrops = 0
    /\ attLog = <<>>

UDPIdle ==
    /\ sessions = [k \in Keys |-> 0]
    /\ sess = [i \in 1..MaxSess |-> NoSession]
    /\ nextSess = 0
    /\ hpc = [pc |-> "idle", sid |-> 0]
    /\ janitorStopped = FALSE
    /\ ugauge = 0

ManagerIdle ==
    /\ mpc = "idle"
    /\ gsTimeout = 0
    /\ gsStart = -1
    /\ selStart = -1
    /\ doneClosed = FALSE
    /\ gsResult = ""
    /\ lateInFlight = FALSE

(***************************************************************************)
(* The limiter specification: calls on one ConnectionLimiter, one at a     *)
(* time, with the clock advancing between them.                            *)
(***************************************************************************)
LimInit ==
    /\ now = 0
    /\ cfg \in LimiterConfigs
    /\ LimitersEmpty
    /\ HistoryEmpty
    /\ allowlist = <<IPs>>
    /\ ListenerNotStarted
    /\ TCPIdle
    /\ ManagerIdle
    /\ ucfg = NoUDP
    /\ UDPIdle
    /\ AuxIdle

\* the first call for the ip is less than one window ago (or this is the first)
InOneWindow(ip) == firstCall[ip] = -1 \/ now - firstCall[ip] < cfg.connWindow

\* ConnectionLimiter.Allow(ip)
LimAllow(ip) ==
    LET r == ConnAllow(connections[ip], now, cfg.maxConnPerIP, cfg.connWindow)
    IN  /\ Len(allowLog[ip]) < MaxAllows
        /\ connections' = [connections EXCEPT ![ip] = r[2]]
        /\ lastAllow' = [ip |-> ip, ret |-> r[1], heldBefore |-> held[ip],
                         inWindow |-> InOneWindow(ip)]
        /\ firstCall' = [firstCall EXCEPT ![ip] = IF @ = -1 THEN now ELSE @]
        /\ held' = [held EXCEPT ![ip] = IF r[1] THEN @ + 1 ELSE @]
        /\ rejected' = [rejected EXCEPT ![ip] = @ \/ ~r[1]]
        /\ allowLog' = [allowLog EXCEPT ![ip] = IF r[1] THEN Append(@, now) ELSE @]
        /\ UNCHANGED <<now, cfg, attempts, buckets, totalConns, relIdx, relCalls>>
        /\ UNCHANGED pipeVars

\* ConnectionLimiter.Release(ip)
LimRelease(ip) ==
    LET e == connections[ip]
        removes == e.present /\ e.count > 0 /\ Len(e.timestamps) > 0
    IN  /\ Len(relCalls[ip]) < MaxAllows
        /\ connections' = [connections EXCEPT ![ip] = ConnRelease(@)]
        /\ held' = [held EXCEPT ![ip] = Max2(@ - 1, 0)]
        /\ relCalls' = [relCalls EXCEPT ![ip] =
                            Append(@, [t |-> now, had |-> e.present /\ e.count > 0])]
        \* the oldest stored timestamp is the one removed
        /\ relIdx' = [relIdx EXCEPT ![ip] =
                        IF removes
                        THEN @ \union {Len(allowLog[ip]) - Len(e.timestamps) + 1}
                        ELSE @]
        /\ firstCall' = [firstCall EXCEPT ![ip] = IF @ = -1 THEN now ELSE @]
        /\ UNCHANGED <<now, cfg, attempts, buckets, totalConns, allowLog, rejected, lastAllow>>
        /\ UNCHANGED pipeVars

\* ConnectionLimiter.cleanup(), run by cleanupLoop on its ticker
LimCleanup ==
    /\ connections' = ConnCleanup(connections, now, cfg.connWindow)
    /\ connections' # connections
    /\ UNCHANGED <<now, cfg, attempts, buckets, totalConns>>
    /\ UNCHANGED histVars
    /\ UNCHANGED pipeVars

\* time passes
LimTick ==
    /\ now < MaxTime
    /\ now' = now + 1
    /\ UNCHANGED <<cfg>>
    /\ UNCHANGED limVars
    /\ UNCHANGED histVars
    /\ UNCHANGED pipeVars

LimNext ==
    \/ \E ip \in LimIPs : LimAllow(ip)
    \/ \E ip \in LimIPs : LimRelease(ip)
    \/ LimCleanup
    \/ LimTick


LimSpec == LimInit /\ [][LimNext]_vars

(***************************************************************************)
(* Allowlist (package acl)                                                 *)
(***************************************************************************)
\* Allowlist.IsAllowed: false with no rules, else true iff some rule contains ip
IsAllowed(rules, ip) ==
    IF Len(rules) = 0 THEN FALSE
    ELSE \E i \in 1..Len(rules) : ip \in rules[i]

(***************************************************************************)
(* The reclaimers of the three limiters (cleanupLoop goroutines)           *)
(***************************************************************************)
ReclaimConnections ==
    /\ HasConnLimiter(cfg)
    /\ ~rlClosed
    /\ connections' = ConnCleanup(connections, now, cfg.connWindow)
    /\ connections' # connections
    /\ UNCHANGED <<now, cfg, attempts, buckets, totalConns>>
    /\ UNCHANGED <<histVars, pipeVars>>

ReclaimAttempts ==
    /\ HasAttemptLimiter(cfg)
    /\ ~rlClosed
    /\ attempts' = [ip \in IPs |->
                      IF AttemptCleanupDeletes(attempts[ip], now, cfg.attemptWindow)
                      THEN NoAttemptEntry ELSE attempts[ip]]
    /\ attempts' # attempts
    /\ UNCHANGED <<now, cfg, connections, buckets, totalConns>>
    /\ UNCHANGED <<histVars, pipeVars>>

ReclaimBuckets ==
    /\ HasBandwidthLimiter(cfg)
    /\ ~rlClosed
    /\ buckets' = [ip \in IPs |->
                     IF BandwidthCleanupDeletes(buckets[ip], now, cfg.bwWindow)
                     THEN NoBucket ELSE buckets[ip]]
    /\ buckets' # buckets
    /\ UNCHANGED <<now, cfg, connections, attempts, totalConns>>
    /\ UNCHANGED <<histVars, pipeVars>>

(***************************************************************************)
(* TCP pipeline: TCPListener (acceptLoop) and TCPProxy.HandleConnection    *)
(***************************************************************************)
\* sizes of the chunks a Read returns
ChunkSizes == {1}
\* results of dst.Write for an accepted chunk
WriteResults == {"ok", "werr"}
\* arguments of GracefulShutdown
GsTimeouts == {0, 1}

\* the listener's configuration in the TCP specification
TCPConfigs ==
    { [maxConnPerIP |-> 1, connWindow |-> 2, maxAttempts |-> 1, attemptWindow |-> 1,
       maxBW |-> 1, bwWindow |-> 2, maxTotal |-> 1, action |-> "drop", throttleMin |-> 0] }

\* handlers that have been started and have not returned (TCPListener.wg, less the loop)
InFlight == {c \in Conns : tpc[c] \notin {"new", "done"}}
\* admitted connections whose handler waits for a copy direction that is still running
Copying == {c \in Conns : tpc[c] = "copy" /\ "run" \in {dir[c].c2t, dir[c].t2c}}

\* TCPListener.Start: net.Listen succeeds, acceptLoop is started
TcpStart ==
    /\ loopPc = "none"
    /\ mpc = "idle"
    /\ listening' = TRUE
    /\ loopPc' = "run"
    /\ UNCHANGED <<now, cfg, limVars, histVars, auxVars, udpVars, allowlist, lctx, rlClosed, tcpVars, mgrVars>>

\* (variant) the attempt is recorded before the ACL check
TcpAccept_AttemptBeforeACL(c, ip) ==
    /\ listening
    /\ loopPc = "run"
    /\ tpc[c] = "new"
    /\ tip' = [tip EXCEPT ![c] = ip]
    /\ attempts' = [attempts EXCEPT ![ip] = RecordAttempt(@, now, cfg.maxAttempts, cfg.attemptWindow)[2]]
    /\ IF IsAllowed(allowlist, ip)
       THEN /\ tpc' = [tpc EXCEPT ![c] = "attempt"]
            /\ UNCHANGED <<sockClosed, aclDrops, aclDenied>>
       ELSE /\ tpc' = [tpc EXCEPT ![c] = "done"]
            /\ sockClosed' = [sockClosed EXCEPT ![c] = TRUE]
            /\ aclDrops' = aclDrops + 1
            /\ aclDenied' = aclDenied + 1
    /\ UNCHANGED <<now, cfg, connections, buckets, totalConns, histVars, udpVars, lsnVars, mgrVars>>
    /\ UNCHANGED <<admVars, fnVars, aclEntries, aclLast, moreVars>>
    /\ UNCHANGED <<dir, admitted, relConnN, relTotalN, openN, closeN, gauge>>

\* acceptLoop: Accept returns a connection from ip, the handler goroutine starts;
\* HandleConnection up to the ACL check (a denied connection is counted in
\* acl_drops and connections_total{acl_denied} and the handler returns at once)
TcpAccept(c, ip) ==
    /\ listening
    /\ loopPc = "run"
    /\ tpc[c] = "new"
    /\ tip' = [tip EXCEPT ![c] = ip]
    /\ IF IsAllowed(allowlist, ip)
       THEN /\ tpc' = [tpc EXCEPT ![c] = "attempt"]
            /\ UNCHANGED <<sockClosed, aclDrops, aclDenied>>
       ELSE /\ tpc' = [tpc EXCEPT ![c] = "done"]
            /\ sockClosed' = [sockClosed EXCEPT ![c] = TRUE]
            /\ aclDrops' = aclDrops + 1
            /\ aclDenied' = aclDenied + 1
    /\ UNCHANGED <<now, cfg, limVars, histVars, udpVars, lsnVars, mgrVars>>
    /\ UNCHANGED <<admVars, fnVars, aclEntries, aclLast, moreVars>>
    /\ UNCHANGED <<dir, admitted, relConnN, relTotalN, openN, closeN, gauge>>

\* AllowConnection, step 1: attemptLimiter.RecordAttempt
TcpAttempt(c) ==
    /\ tpc[c] = "attempt"
    /\ IF HasAttemptLimiter(cfg)
       THEN LET r == RecordAttempt(attempts[tip[c]], now, cfg.maxAttempts, cfg.attemptWindow)
            IN  /\ attempts' = [attempts EXCEPT ![tip[c]] = r[2]]
                /\ IF r[1]
                   THEN /\ tpc' = [tpc EXCEPT ![c] = "total"]
                        /\ UNCHANGED sockClosed
                   ELSE /\ tpc' = [tpc EXCEPT ![c] = "done"]
                        /\ sockClosed' = [sockClosed EXCEPT ![c] = TRUE]
       ELSE /\ tpc' = [tpc EXCEPT ![c] = "total"]
            /\ UNCHANGED <<attempts, sockClosed>>
    /\ UNCHANGED <<now, cfg, connections, buckets, totalConns, histVars, auxVars, udpVars, lsnVars, mgrVars>>
    /\ UNCHANGED <<tip, dir, admitted, relConnN, relTotalN, openN, closeN, gauge>>

\* AllowConnection, step 2: AllowTotalConnection's atomic.AddInt64(+1) and its test
TcpTotal(c) ==
    /\ tpc[c] = "total"
    /\ IF cfg.maxTotal = 0
       THEN /\ tpc' = [tpc EXCEPT ![c] = "perip"]
            /\ UNCHANGED totalConns
       ELSE /\ totalConns' = totalConns + 1
            /\ tpc' = [tpc EXCEPT ![c] =
                         IF TotalLimitExceeded(totalConns + 1, cfg.maxTotal)
                         THEN "total_undo" ELSE "perip"]
    /\ UNCHANGED <<now, cfg, connections, attempts, buckets, histVars, auxVars, udpVars, lsnVars, mgrVars>>
    /\ UNCHANGED <<tip, dir, admitted, relConnN, relTotalN, openN, closeN, sockClosed, gauge>>

\* AllowTotalConnection over the limit: atomic.AddInt64(-1), AllowConnection returns false
TcpTotalUndo_NoDecrement(c) ==
    /\ tpc[c] = "total_undo"
    /\ totalConns' = totalConns
    /\ tpc' = [tpc EXCEPT ![c] = "done"]
    /\ sockClosed' = [sockClosed EXCEPT ![c] = TRUE]
    /\ UNCHANGED <<now, cfg, connections, attempts, buckets, histVars, auxVars, udpVars, lsnVars, mgrVars>>
    /\ UNCHANGED <<tip, dir, admitted, relConnN, relTotalN, openN, closeN, gauge>>
TcpTotalUndo(c) ==
    /\ tpc[c] = "total_undo"
    /\ totalConns' = totalConns - 1
    /\ tpc' = [tpc EXCEPT ![c] = "done"]
    /\ sockClosed' = [sockClosed EXCEPT ![c] = TRUE]
    /\ UNCHANGED <<now, cfg, connections, attempts, buckets, histVars, auxVars, udpVars, lsnVars, mgrVars>>
    /\ UNCHANGED <<tip, dir, admitted, relConnN, relTotalN, openN, closeN, gauge>>

\* AllowConnection, step 3: connLimiter.Allow
TcpPerIP(c) ==
    /\ tpc[c] = "perip"
    /\ IF HasConnLimiter(cfg)
       THEN LET r == ConnAllow(connections[tip[c]], now, cfg.maxConnPerIP, cfg.connWindow)
            IN  /\ connections' = [connections EXCEPT ![tip[c]] = r[2]]
                /\ admitted' = [admitted EXCEPT ![c] = r[1]]
                /\ tpc' = [tpc EXCEPT ![c] = IF r[1] THEN "open" ELSE "rollback"]
       ELSE /\ admitted' = [admitted EXCEPT ![c] = TRUE]
            /\ tpc' = [tpc EXCEPT ![c] = "open"]
            /\ UNCHANGED connections
    /\ UNCHANGED <<now, cfg, attempts, buckets, totalConns, histVars, auxVars, udpVars, lsnVars, mgrVars>>
    /\ UNCHANGED <<tip, dir, relConnN, relTotalN, openN, closeN, sockClosed, gauge>>

\* AllowConnection, per-IP denial: "Rollback total connection increment", return false
TcpRollback(c) ==
    /\ tpc[c] = "rollback"
    /\ totalConns' = ReleaseTotalConnection(cfg, totalConns)
    /\ tpc' = [tpc EXCEPT ![c] = "done"]
    /\ sockClosed' = [sockClosed EXCEPT ![c] = TRUE]
    /\ UNCHANGED <<now, cfg, connections, attempts, buckets, histVars, auxVars, udpVars, lsnVars, mgrVars>>
    /\ UNCHANGED <<tip, dir, admitted, relConnN, relTotalN, openN, closeN, gauge>>

\* admitted: the open event, connections_total{accepted}, connections_active.Inc
TcpOpen(c) ==
    /\ tpc[c] = "open"
    /\ openN' = [openN EXCEPT ![c] = @ + 1]
    /\ gauge' = gauge + 1
    /\ tpc' = [tpc EXCEPT ![c] = "dial"]
    /\ UNCHANGED <<now, cfg, limVars, histVars, auxVars, udpVars, lsnVars, mgrVars>>
    /\ UNCHANGED <<tip, dir, admitted, relConnN, relTotalN, closeN, sockClosed>>

\* net.DialTimeout succeeds: deadlines set, both copyWithStats goroutines start
TcpDialOk(c) ==
    /\ tpc[c] = "dial"
    /\ tpc' = [tpc EXCEPT ![c] = "copy"]
    /\ dir' = [dir EXCEPT ![c] = [c2t |-> "run", t2c |-> "run"]]
    /\ UNCHANGED <<now, cfg, limVars, histVars, auxVars, udpVars, lsnVars, mgrVars>>
    /\ UNCHANGED <<tip, admitted, relConnN, relTotalN, openN, closeN, sockClosed, gauge>>

\* net.DialTimeout fails: the close event with the error, return (the deferred
\* connections_active.Dec runs first, the two releases follow)
TcpDialFail_NoRelease(c) ==
    /\ tpc[c] = "dial"
    /\ closeN' = [closeN EXCEPT ![c] = @ + 1]
    /\ gauge' = gauge - 1
    /\ tpc' = [tpc EXCEPT ![c] = "done"]
    /\ sockClosed' = [sockClosed EXCEPT ![c] = TRUE]
    /\ UNCHANGED <<now, cfg, limVars, histVars, udpVars, lsnVars, mgrVars>>
    /\ UNCHANGED <<admVars, fnVars, aclVars, ctlVars>>
    /\ closeErr' = [closeErr EXCEPT ![c] = "error"]
    /\ UNCHANGED <<accepted, written, sentAdded>>
    /\ UNCHANGED <<tip, dir, admitted, relConnN, relTotalN, openN>>
TcpDialFail(c) ==
    /\ tpc[c] = "dial"
    /\ closeN' = [closeN EXCEPT ![c] = @ + 1]
    /\ gauge' = gauge - 1
    /\ tpc' = [tpc EXCEPT ![c] = "ret_total"]
    /\ UNCHANGED <<now, cfg, limVars, histVars, udpVars, lsnVars, mgrVars>>
    /\ UNCHANGED <<admVars, fnVars, aclVars, ctlVars>>
    /\ closeErr' = [closeErr EXCEPT ![c] = "error"]
    /\ UNCHANGED <<accepted, written, sentAdded>>
    /\ UNCHANGED <<tip, dir, admitted, relConnN, relTotalN, openN, sockClosed>>

\* copyWithStats, one iteration with nr = n > 0: AllowBandwidth (denied: the
\* direction ends), then dst.Write; a failed write has written nothing (nw = 0) and
\* ends the direction.  written counts nw.  When the direction ends its goroutine
\* adds written to bytes_transferred_total.
CopyChunk(c, d, n, w) ==
    /\ tpc[c] = "copy"
    /\ dir[c][d] = "run"
    /\ LET r == AllowBandwidth(cfg, buckets[tip[c]], n, now)
           nw == IF r[1] /\ w = "ok" THEN n ELSE 0
           goesOn == r[1] /\ w = "ok"
       IN  /\ buckets' = [buckets EXCEPT ![tip[c]] = r[2]]
           /\ dir' = [dir EXCEPT ![c][d] = IF goesOn THEN "run" ELSE "err"]
           /\ IF d = "c2t"
              THEN /\ accepted' = [accepted EXCEPT ![c] = @ + (IF r[1] THEN n ELSE 0)]
                   /\ written' = [written EXCEPT ![c] = @ + nw]
                   /\ sentAdded' = IF goesOn THEN sentAdded
                                   ELSE [sentAdded EXCEPT ![c] = written[c] + nw]
              ELSE UNCHANGED <<accepted, written, sentAdded>>
    /\ UNCHANGED <<now, cfg, connections, attempts, totalConns, histVars, udpVars, lsnVars, mgrVars>>
    /\ UNCHANGED <<admVars, fnVars, aclVars, ctlVars, closeErr>>
    /\ UNCHANGED <<tpc, tip, admitted, relConnN, relTotalN, openN, closeN, sockClosed, gauge>>

\* copyWithStats: src.Read returns io.EOF (the source peer closed): the direction ends
CopyEOF(c, d) ==
    /\ tpc[c] = "copy"
    /\ dir[c][d] = "run"
    /\ dir' = [dir EXCEPT ![c][d] = "ok"]
    /\ UNCHANGED <<now, cfg, limVars, histVars, udpVars, lsnVars, mgrVars>>
    /\ UNCHANGED <<admVars, fnVars, aclVars, ctlVars>>
    /\ sentAdded' = IF d = "c2t" THEN [sentAdded EXCEPT ![c] = written[c]] ELSE sentAdded
    /\ UNCHANGED <<accepted, written, closeErr>>
    /\ UNCHANGED <<tpc, tip, admitted, relConnN, relTotalN, openN, closeN, sockClosed, gauge>>

\* copyWithStats: src.Read returns another error (a deadline, a reset)
CopyReadErr(c, d) ==
    /\ tpc[c] = "copy"
    /\ dir[c][d] = "run"
    /\ dir' = [dir EXCEPT ![c][d] = "err"]
    /\ UNCHANGED <<now, cfg, limVars, histVars, udpVars, lsnVars, mgrVars>>
    /\ UNCHANGED <<admVars, fnVars, aclVars, ctlVars>>
    /\ sentAdded' = IF d = "c2t" THEN [sentAdded EXCEPT ![c] = written[c]] ELSE sentAdded
    /\ UNCHANGED <<accepted, written, closeErr>>
    /\ UNCHANGED <<tpc, tip, admitted, relConnN, relTotalN, openN, closeN, sockClosed, gauge>>

\* a HandleConnection whose close event carries only the client->target error
TcpClose_SentErrorOnly(c) ==
    /\ tpc[c] = "copy"
    /\ dir[c].c2t \in {"ok", "err"}
    /\ dir[c].t2c \in {"ok", "err"}
    /\ closeN' = [closeN EXCEPT ![c] = @ + 1]
    /\ gauge' = gauge - 1
    /\ tpc' = [tpc EXCEPT ![c] = "ret_total"]
    /\ UNCHANGED <<now, cfg, limVars, histVars, udpVars, lsnVars, mgrVars>>
    /\ UNCHANGED <<admVars, fnVars, aclVars, ctlVars>>
    /\ closeErr' = [closeErr EXCEPT ![c] =
                      IF dir[c].c2t = "err" THEN "error" ELSE "clean"]
    /\ UNCHANGED <<accepted, written, sentAdded>>
    /\ UNCHANGED <<tip, dir, admitted, relConnN, relTotalN, openN, sockClosed>>

\* both results received from errChan: the close event, the duration, return (the
\* deferred targetConn.Close and connections_active.Dec run first)
TcpClose(c) ==
    /\ tpc[c] = "copy"
    /\ dir[c].c2t \in {"ok", "err"}
    /\ dir[c].t2c \in {"ok", "err"}
    /\ closeN' = [closeN EXCEPT ![c] = @ + 1]
    /\ gauge' = gauge - 1
    /\ tpc' = [tpc EXCEPT ![c] = "ret_total"]
    /\ UNCHANGED <<now, cfg, limVars, histVars, udpVars, lsnVars, mgrVars>>
    /\ UNCHANGED <<admVars, fnVars, aclVars, ctlVars>>
    /\ closeErr' = [closeErr EXCEPT ![c] =
                      IF "err" \in {dir[c].c2t, dir[c].t2c} THEN "error" ELSE "clean"]
    /\ UNCHANGED <<accepted, written, sentAdded>>
    /\ UNCHANGED <<tip, dir, admitted, relConnN, relTotalN, openN, sockClosed>>

\* deferred p.rateLimiter.ReleaseTotalConnection()
TcpReleaseTotal(c) ==
    /\ tpc[c] = "ret_total"
    /\ totalConns' = ReleaseTotalConnection(cfg, totalConns)
    /\ relTotalN' = [relTotalN EXCEPT ![c] = @ + 1]
    /\ tpc' = [tpc EXCEPT ![c] = "ret_conn"]
    /\ UNCHANGED <<now, cfg, connections, attempts, buckets, histVars, auxVars, udpVars, lsnVars, mgrVars>>
    /\ UNCHANGED <<tip, dir, admitted, relConnN, openN, closeN, sockClosed, gauge>>

\* deferred p.rateLimiter.ReleaseConnection(clientIP), then clientConn.Close and wg.Done
TcpReleaseConn(c) ==
    /\ tpc[c] = "ret_conn"
    /\ connections' = ReleaseConnection(cfg, connections, tip[c])
    /\ relConnN' = [relConnN EXCEPT ![c] = @ + 1]
    /\ sockClosed' = [sockClosed EXCEPT ![c] = TRUE]
    /\ tpc' = [tpc EXCEPT ![c] = "done"]
    /\ UNCHANGED <<now, cfg, attempts, buckets, totalConns, histVars, auxVars, udpVars, lsnVars, mgrVars>>
    /\ UNCHANGED <<tip, dir, admitted, relTotalN, openN, closeN, gauge>>

\* acceptLoop: Accept fails on the closed listener and ctx is done: the loop returns
AcceptLoopExit ==
    /\ loopPc = "run"
    /\ ~listening
    /\ lctx = "cancelled"
    /\ loopPc' = "done"
    /\ UNCHANGED <<now, cfg, limVars, histVars, auxVars, udpVars, allowlist, listening, lctx, rlClosed>>
    /\ UNCHANGED <<tcpVars, mgrVars>>

(***************************************************************************)
(* Manager.GracefulShutdown over the TCP listener                          *)
(***************************************************************************)
\* GracefulShutdown(timeout) calls Manager.Stop, which cancels the context and calls
\* TCPListener.Stop: cancel, listener.Close, rateLimiter.Close, then wg.Wait
GsBeginTCP(timeout) ==
    /\ mpc = "idle"
    /\ loopPc = "run"
    /\ mpc' = "stopwait"
    /\ gsTimeout' = timeout
    /\ gsStart' = now
    /\ lctx' = "cancelled"
    /\ listening' = FALSE
    /\ rlClosed' = TRUE
    /\ lateInFlight' = (timeout = 0 /\ Copying # {})
    /\ UNCHANGED <<now, cfg, limVars, histVars, auxVars, udpVars, allowlist, loopPc, tcpVars>>
    /\ UNCHANGED <<selStart, doneClosed, gsResult>>

\* TCPListener.Stop: l.wg.Wait returns once acceptLoop and every handler have
\* returned; Manager.Stop returns nil and GracefulShutdown starts its waiter
\* goroutine and enters the select (time.After(timeout) is armed now)
GsStopReturnsTCP ==
    /\ mpc = "stopwait"
    /\ loopPc = "done"
    /\ InFlight = {}
    /\ mpc' = "select"
    /\ selStart' = now
    /\ UNCHANGED <<now, cfg, limVars, histVars, auxVars, udpVars, lsnVars, tcpVars>>
    /\ UNCHANGED <<gsTimeout, gsStart, doneClosed, gsResult, lateInFlight>>

\* the waiter goroutine: m.wg.Wait() returns (nothing ever adds to Manager.wg),
\* close(done)
GsWaiter ==
    /\ mpc = "select"
    /\ ~doneClosed
    /\ doneClosed' = TRUE
    /\ UNCHANGED <<now, cfg, limVars, histVars, auxVars, udpVars, lsnVars, tcpVars>>
    /\ UNCHANGED <<mpc, gsTimeout, gsStart, selStart, gsResult, lateInFlight>>

\* select: case <-done
GsReturnNil ==
    /\ mpc = "select"
    /\ doneClosed
    /\ mpc' = "returned"
    /\ gsResult' = "nil"
    /\ UNCHANGED <<now, cfg, limVars, histVars, auxVars, udpVars, lsnVars, tcpVars>>
    /\ UNCHANGED <<gsTimeout, gsStart, selStart, doneClosed, lateInFlight>>

\* select: case <-time.After(timeout)
GsReturnTimeout ==
    /\ mpc = "select"
    /\ now - selStart >= gsTimeout
    /\ mpc' = "returned"
    /\ gsResult' = "timeout"
    /\ UNCHANGED <<now, cfg, limVars, histVars, auxVars, udpVars, lsnVars, tcpVars>>
    /\ UNCHANGED <<gsTimeout, gsStart, selStart, doneClosed, lateInFlight>>

\* the clock runs from 0 to TcpMaxTime in the TCP specification
TcpMaxTime == 2

\* time passes
TcpTick ==
    /\ now < TcpMaxTime
    /\ now' = now + 1
    /\ lateInFlight' =
          (lateInFlight \/ (/\ mpc \in {"stopwait", "select"}
                            /\ now + 1 - gsStart >= gsTimeout
                            /\ Copying # {}))
    /\ UNCHANGED <<cfg, limVars, histVars, auxVars, udpVars, lsnVars, tcpVars>>
    /\ UNCHANGED <<mpc, gsTimeout, gsStart, selStart, doneClosed, gsResult>>

TcpInit ==
    /\ now = 0
    /\ cfg \in TCPConfigs
    /\ LimitersEmpty
    /\ HistoryEmpty
    /\ allowlist = <<{"ip1", "ip2"}>>
    /\ ListenerNotStarted
    /\ TCPIdle
    /\ ManagerIdle
    /\ ucfg = NoUDP
    /\ UDPIdle
    /\ AuxIdle

\* the steps of one handler that the scheduler takes by itself
HandlerStep(c) ==
    \/ TcpAttempt(c)
    \/ TcpTotal(c)
    \/ TcpTotalUndo(c)
    \/ TcpPerIP(c)
    \/ TcpRollback(c)
    \/ TcpOpen(c)
    \/ TcpClose(c)
    \/ TcpReleaseTotal(c)
    \/ TcpReleaseConn(c)

\* the steps that wait for the network or the peers
PeerStep(c) ==
    \/ \E ip \in SrcIPs : TcpAccept(c, ip)
    \/ TcpDialOk(c)
    \/ TcpDialFail(c)
    \/ \E d \in {"c2t", "t2c"}, n \in ChunkSizes, w \in WriteResults : CopyChunk(c, d, n, w)
    \/ \E d \in {"c2t", "t2c"} : CopyEOF(c, d)
    \/ \E d \in {"c2t", "t2c"} : CopyReadErr(c, d)

ShutdownStep ==
    \/ AcceptLoopExit
    \/ GsStopReturnsTCP
    \/ GsWaiter
    \/ GsReturnNil
    \/ GsReturnTimeout

Next ==
    \/ TcpStart
    \/ \E c \in Conns : HandlerStep(c)
    \/ \E c \in Conns : PeerStep(c)
    \/ \E t \in GsTimeouts : GsBeginTCP(t)
    \/ ShutdownStep
    \/ ReclaimConnections
    \/ TcpTick

Spec == TcpInit /\ [][Next]_vars

\* The scheduler runs every goroutine that can take a step: the handlers' own steps
\* and the shutdown's steps are weakly fair.  What the peers and the network do
\* (connect, send, close, fail) and the shutdown request itself are not.
FairSpec ==
    /\ Spec
    /\ \A c \in Conns : WF_vars(HandlerStep(c))
    /\ WF_vars(ShutdownStep)

(***************************************************************************)
(* Properties of the TCP pipeline (checked under Spec and FairSpec)        *)
(***************************************************************************)
\* C1: a handler whose AllowConnection returned true calls ReleaseConnection and
\* ReleaseTotalConnection exactly once each before it returns, on every exit path;
\* a handler rejected by the allowlist or by AllowConnection calls neither.
C1_TcpReleasedExactlyOnce ==
    \A c \in Conns :
        /\ relConnN[c] <= 1
        /\ relTotalN[c] <= 1
        /\ ~admitted[c] => (relConnN[c] = 0 /\ relTotalN[c] = 0)
        /\ (tpc[c] = "done" /\ admitted[c]) => (relConnN[c] = 1 /\ relTotalN[c] = 1)

\* C1 witness: one handler has returned after a copy direction ended in an error
\* (bandwidth denial, write or read error) and has released; another, from the same
\* allowed address, was rejected by AllowConnection and has returned.
C1_Witness ==
    \E c1, c2 \in Conns :
        /\ tpc[c1] = "done" /\ admitted[c1] /\ dir[c1].c2t = "err"
        /\ relConnN[c1] = 1 /\ relTotalN[c1] = 1
        /\ tpc[c2] = "done" /\ ~admitted[c2] /\ tip[c2] = "ip1"

\* C5: GracefulShutdown(timeout) bounds its wait: it is not still waiting after the
\* timeout while a connection is being copied, and it returns nil only if no
\* connection was still being copied when the timeout elapsed.
C5_ShutdownBounded ==
    /\ gsResult = "nil" => ~lateInFlight
    /\ ~(mpc = "stopwait" /\ now - gsStart > gsTimeout /\ Copying # {})

\* C6: once one copy direction of an admitted connection has ended, the handler
\* eventually returns (both sockets closed, close event logged, admissions
\* released) without the other peer closing or a deadline expiring.
C6_OneDirectionEndsConnection ==
    \A c \in Conns :
        (tpc[c] = "copy" /\ (dir[c].c2t # "run" \/ dir[c].t2c # "run"))
            ~> (tpc[c] = "done" /\ sockClosed[c] /\ closeN[c] = 1 /\ relConnN[c] = 1)

\* C10: with max_total_connections = M > 0 the connections admitted by
\* AllowConnection and not yet released never exceed M.
C10_TotalWithinMax ==
    cfg.maxTotal > 0 =>
        Cardinality({c \in Conns : admitted[c] /\ relTotalN[c] = 0}) <= cfg.maxTotal

\* C10 witness: M connections are admitted and unreleased while another handler has
\* incremented the counter past M and is about to undo it.
C10_Witness ==
    /\ cfg.maxTotal > 0
    /\ Cardinality({c \in Conns : admitted[c] /\ relTotalN[c] = 0}) = cfg.maxTotal
    /\ \E c \in Conns : tpc[c] = "total_undo"

(***************************************************************************)
(* Properties of the ConnectionLimiter (checked under LimSpec)             *)
(***************************************************************************)
\* the count Allow would recompute now: the stored timestamps that are unexpired
EffectiveCount(ip) ==
    Len(ValidTimestamps(connections[ip].timestamps, now, cfg.connWindow))

\* successful Allow calls for the ip in the last window
AllowsInWindow(ip) ==
    Cardinality({i \in 1..Len(allowLog[ip]) : allowLog[ip][i] > now - cfg.connWindow})

\* Release calls for the ip that found a count above 0: all, and of the last window
Releases(ip) ==
    Cardinality({i \in 1..Len(relCalls[ip]) : relCalls[ip][i].had})
ReleasesInWindow(ip) ==
    Cardinality({i \in 1..Len(relCalls[ip]) :
                    relCalls[ip][i].had /\ relCalls[ip][i].t > now - cfg.connWindow})

\* C7: the connections of one IP that were admitted and are not yet released never
\* exceed max_connections_per_ip, also when some were admitted over a window ago.
C7_HoldingsWithinMax ==
    \A ip \in IPs : held[ip] <= cfg.maxConnPerIP

UnreleasedAllowsInWindow(ip) ==
    Cardinality({i \in 1..Len(allowLog[ip]) :
                    allowLog[ip][i] > now - cfg.connWindow /\ i \notin relIdx[ip]})

C9_CountState ==
    \A ip \in IPs :
        /\ EffectiveCount(ip) = UnreleasedAllowsInWindow(ip)
        /\ connections[ip].count = Len(connections[ip].timestamps)
        /\ connections[ip].count >= 0

AllowConnection_NoRollback(c, atts, total, conns, ip, t) ==
    LET ra == IF HasAttemptLimiter(c)
              THEN RecordAttempt(atts[ip], t, c.maxAttempts, c.attemptWindow)
              ELSE <<TRUE, atts[ip]>>
        atts1 == [atts EXCEPT ![ip] = ra[2]]
        total1 == IF c.maxTotal > 0 THEN total + 1 ELSE total
        ca == IF HasConnLimiter(c)
              THEN ConnAllow(conns[ip], t, c.maxConnPerIP, c.connWindow)
              ELSE <<TRUE, conns[ip]>>
        conns1 == [conns EXCEPT ![ip] = ca[2]]
    IN  IF ~ra[1]
        THEN [ok |-> FALSE, attempts |-> atts1, total |-> total, connections |-> conns]
        ELSE IF c.maxTotal > 0 /\ TotalLimitExceeded(total1, c.maxTotal)
        THEN [ok |-> FALSE, attempts |-> atts1, total |-> total1 - 1, connections |-> conns]
        ELSE [ok |-> ca[1], attempts |-> atts1, total |-> total1, connections |-> conns1]

\* AllowConnection(ip) at time t: the result and the limiters' state after it
AllowConnection(c, atts, total, conns, ip, t) ==
    LET ra == IF HasAttemptLimiter(c)
              THEN RecordAttempt(atts[ip], t, c.maxAttempts, c.attemptWindow)
              ELSE <<TRUE, atts[ip]>>
        atts1 == [atts EXCEPT ![ip] = ra[2]]
        total1 == IF c.maxTotal > 0 THEN total + 1 ELSE total
        ca == IF HasConnLimiter(c)
              THEN ConnAllow(conns[ip], t, c.maxConnPerIP, c.connWindow)
              ELSE <<TRUE, conns[ip]>>
        conns1 == [conns EXCEPT ![ip] = ca[2]]
    IN  IF ~ra[1]
        THEN [ok |-> FALSE, attempts |-> atts1, total |-> total, connections |-> conns]
        ELSE IF c.maxTotal > 0 /\ TotalLimitExceeded(total1, c.maxTotal)
        THEN [ok |-> FALSE, attempts |-> atts1, total |-> total1 - 1, connections |-> conns]
        ELSE IF ~ca[1]
        THEN [ok |-> FALSE, attempts |-> atts1,
              total |-> ReleaseTotalConnection(c, total1), connections |-> conns1]
        ELSE [ok |-> TRUE, attempts |-> atts1, total |-> total1, connections |-> conns1]

(***************************************************************************)
(* UDP: SessionManager and UDPProxy                                        *)
(***************************************************************************)
\* the configurations of the UDP specification: session_timeout 1, close events
\* logged, without and with minimum thresholds
UDPConfigs ==
    { [sessionTimeout |-> 1, logStart |-> TRUE, logClose |-> TRUE,
       minLogBytes |-> m, minLogDuration |-> m,
       periodicInterval |-> 0, periodicBytes |-> 0, present |-> TRUE] : m \in {0, 1} }

\* the rate limits of the UDP listener
UDPLimits ==
    { [NoLimits EXCEPT !.maxConnPerIP = 1, !.connWindow = 2, !.maxTotal = 2,
                       !.maxBW = 1, !.bwWindow = 2, !.action = "drop"] }

\* size of every datagram
PacketSize == 1

\* the Session objects that exist; those whose reader goroutine has not returned
Created == {i \in 1..MaxSess : i <= nextSess}
ReadersRunning == {i \in Created : sess[i].rpc \in {"start", "read"}}

\* SessionManager.Remove(id) on the table: the object removed (0 if none)
Remove(tbl, id) == tbl[id]

\* a ShouldLogPeriodic that fires only strictly after the interval
ShouldLogPeriodic_AfterInterval(s, intervalDuration, intervalBytes, t) ==
    LET totalBytes == s.sent + s.recv
    IN  IF intervalDuration > 0 /\ t - s.last > intervalDuration THEN TRUE
        ELSE IF intervalBytes > 0 /\ totalBytes - s.lastBytes >= intervalBytes THEN TRUE
        ELSE FALSE

\* Session.ShouldLogPeriodic at time t
ShouldLogPeriodic(s, intervalDuration, intervalBytes, t) ==
    LET totalBytes == s.sent + s.recv
    IN  IF intervalDuration > 0 /\ t - s.last >= intervalDuration THEN TRUE
        ELSE IF intervalBytes > 0 /\ totalBytes - s.lastBytes >= intervalBytes THEN TRUE
        ELSE FALSE

\* Session.UpdatePeriodicLog at time t: both watermarks, under s.mu
UpdatePeriodicLog(s, t) == [s EXCEPT !.last = t, !.lastBytes = s.sent + s.recv]

\* cleanupSession's decision to log the close event of a session
ShouldLogClose(u, totalBytes, duration) ==
    /\ u.logClose
    /\ ~(u.minLogBytes > 0 /\ totalBytes < u.minLogBytes)
    /\ ~(u.minLogDuration > 0 /\ duration < u.minLogDuration)

\* (variant) cleanupSession without the early return on Remove's nil
CleanupSession_IgnoresNil(sid, base) ==
    LET k == base[sid].key
        removed == Remove(sessions, k)
        base1 == IF removed = 0 THEN base
                 ELSE [base EXCEPT ![removed].cancelled = TRUE, ![removed].leftAt = now]
    IN  /\ sessions' = [sessions EXCEPT ![k] = 0]
        /\ sess' = [base1 EXCEPT ![sid].closed = TRUE,
                                 ![sid].removeCalls = @ + 1,
                                 ![sid].relConnN = @ + 1,
                                 ![sid].relTotalN = @ + 1,
                                 ![sid].closeN = @ + 1]
        /\ connections' = ReleaseConnection(cfg, connections, KeyIP(k))
        /\ totalConns' = ReleaseTotalConnection(cfg, totalConns)
        /\ ugauge' = ugauge - 1

\* UDPProxy.cleanupSession(sess) for the object sid; base is the objects with the
\* caller's own changes.  Remove looks the table up by sess.ID, the source address.
CleanupSession(sid, base) ==
    LET k == base[sid].key
        removed == Remove(sessions, k)
    IN  IF removed = 0
        THEN /\ sess' = [base EXCEPT ![sid].removeCalls = @ + 1]
             /\ UNCHANGED <<sessions, connections, totalConns, ugauge>>
        ELSE /\ sessions' = [sessions EXCEPT ![k] = 0]
             /\ sess' = [[base EXCEPT ![removed].cancelled = TRUE,
                                      ![removed].leftAt = now]
                           EXCEPT ![sid].closed = TRUE,
                                  ![sid].removeCalls = @ + 1,
                                  ![sid].relConnN = @ + 1,
                                  ![sid].relTotalN = @ + 1,
                                  ![sid].closeN = @ +
                                      (IF ShouldLogClose(ucfg, base[sid].bytes,
                                                         now - base[sid].createdAt)
                                       THEN 1 ELSE 0)]
             /\ connections' = ReleaseConnection(cfg, connections, KeyIP(k))
             /\ totalConns' = ReleaseTotalConnection(cfg, totalConns)
             /\ ugauge' = ugauge - 1

\* UDPListener.Start: ListenUDP succeeds, readLoop is started
UdpStart ==
    /\ loopPc = "none"
    /\ mpc = "idle"
    /\ listening' = TRUE
    /\ loopPc' = "run"
    /\ UNCHANGED <<now, cfg, limVars, histVars, auxVars, allowlist, lctx, rlClosed, tcpVars, mgrVars>>
    /\ UNCHANGED udpVars

\* SessionManager.GetOrCreate(k): the session of k is found and its activity
\* refreshed, or the target is dialled and a new Session is inserted (HandlePacket
\* returns on a dial error)
GetOrCreate(k, dialOk) ==
    IF sessions[k] # 0
    THEN /\ sess' = [sess EXCEPT ![sessions[k]].lastActivity = now]
         /\ hpc' = [pc |-> "forward", sid |-> sessions[k]]
         /\ UNCHANGED <<ucfg, sessions, nextSess, janitorStopped, ugauge>>
    ELSE IF ~dialOk THEN UNCHANGED udpVars
    ELSE /\ nextSess < MaxSess
         /\ nextSess' = nextSess + 1
         /\ sess' = [sess EXCEPT ![nextSess + 1] =
                       [NoSession EXCEPT !.key = k, !.lastActivity = now,
                                         !.createdAt = now, !.logAt = now]]
         /\ sessions' = [sessions EXCEPT ![k] = nextSess + 1]
         /\ hpc' = [pc |-> "admit", sid |-> nextSess + 1]
         /\ UNCHANGED <<ucfg, janitorStopped, ugauge>>

\* readLoop reads a datagram from k; HandlePacket: the ACL check (a denied
\* datagram is counted in acl_drops and connections_total{acl_denied}), then
\* SessionManager.GetOrCreate (lookup, UpdateActivity, or dial and insert)
UdpRecv(k, dialOk) ==
    /\ listening
    /\ loopPc = "run"
    /\ hpc.pc = "idle"
    /\ IF ~IsAllowed(allowlist, KeyIP(k))
       THEN /\ aclDrops < MaxAclDrops
            /\ aclDrops' = aclDrops + 1
            /\ aclDenied' = aclDenied + 1
            /\ UNCHANGED udpVars
       ELSE /\ UNCHANGED <<aclDrops, aclDenied>>
            /\ GetOrCreate(k, dialOk)
    /\ UNCHANGED <<now, cfg, limVars, histVars, lsnVars, tcpVars, mgrVars>>
    /\ UNCHANGED <<admVars, fnVars, aclEntries, aclLast, moreVars>>

\* HandlePacket, new session: AllowConnection; on false Remove(sess.ID) and return;
\* on true the open event, connections_active.Inc, go startSessionReader.
\* p.config.UDP.Logging.LogSessionStart dereferences p.config.UDP: when the udp
\* block is absent (a nil pointer) the goroutine panics there, after AllowConnection
UdpAdmit ==
    /\ hpc.pc = "admit"
    /\ LET sid == hpc.sid
           k == sess[sid].key
           r == AllowConnection(cfg, attempts, totalConns, connections, KeyIP(k), now)
           removed == Remove(sessions, k)
       IN  /\ attempts' = r.attempts
           /\ totalConns' = r.total
           /\ connections' = r.connections
           /\ IF r.ok /\ ~ucfg.present
              THEN /\ hpc' = [pc |-> "panic", sid |-> sid]
                   /\ UNCHANGED <<sess, sessions, ugauge>>
              ELSE IF r.ok
              THEN /\ sess' = [sess EXCEPT ![sid].admitted = TRUE,
                                           ![sid].openN = @ + (IF ucfg.logStart THEN 1 ELSE 0),
                                           ![sid].rpc = "start"]
                   /\ ugauge' = ugauge + 1
                   /\ hpc' = [pc |-> "forward", sid |-> sid]
                   /\ UNCHANGED sessions
              ELSE /\ sessions' = [sessions EXCEPT ![k] = 0]
                   /\ sess' = IF removed = 0
                              THEN [sess EXCEPT ![sid].removeCalls = @ + 1]
                              ELSE [[sess EXCEPT ![removed].cancelled = TRUE,
                                                 ![removed].leftAt = now]
                                      EXCEPT ![sid].removeCalls = @ + 1]
                   /\ hpc' = [pc |-> "idle", sid |-> 0]
                   /\ UNCHANGED ugauge
    /\ UNCHANGED <<now, cfg, buckets, histVars, auxVars, lsnVars, tcpVars, mgrVars>>
    /\ UNCHANGED <<ucfg, nextSess, janitorStopped>>

\* a HandlePacket that tears the session down when the bandwidth limiter denies
UdpForward_DenialCleansUp(w) ==
    /\ hpc.pc = "forward"
    /\ LET sid == hpc.sid
           ip == KeyIP(sess[sid].key)
           r == AllowBandwidth(cfg, buckets[ip], PacketSize, now)
       IN  /\ buckets' = [buckets EXCEPT ![ip] = r[2]]
           /\ hpc' = [pc |-> "idle", sid |-> 0]
           /\ IF ~r[1]
              THEN /\ bwDrops < MaxBwDrops
                   /\ bwDrops' = bwDrops + 1
                   /\ CleanupSession(sid, sess)
              ELSE /\ UNCHANGED bwDrops
                   /\ IF w = "werr" \/ sess[sid].closed
                      THEN CleanupSession(sid, sess)
                      ELSE /\ sess' = [sess EXCEPT ![sid].bytes = @ + PacketSize]
                           /\ UNCHANGED <<sessions, connections, totalConns, ugauge>>
    /\ UNCHANGED <<now, cfg, attempts, histVars, lsnVars, tcpVars, mgrVars>>
    /\ UNCHANGED <<admVars, bwLog, lastBw, attLog, aclVars, moreVars>>
    /\ UNCHANGED <<ucfg, nextSess, janitorStopped>>

\* HandlePacket: AllowBandwidth (denied: rate_limit_drops{bandwidth_limit} and
\* return), then sess.TargetConn.Write; a write error (always, on a closed socket)
\* runs cleanupSession
UdpForward(w) ==
    /\ hpc.pc = "forward"
    /\ LET sid == hpc.sid
           ip == KeyIP(sess[sid].key)
           r == AllowBandwidth(cfg, buckets[ip], PacketSize, now)
       IN  /\ buckets' = [buckets EXCEPT ![ip] = r[2]]
           /\ hpc' = [pc |-> "idle", sid |-> 0]
           /\ IF ~r[1]
              THEN /\ bwDrops < MaxBwDrops
                   /\ bwDrops' = bwDrops + 1
                   /\ UNCHANGED <<sessions, sess, connections, totalConns, ugauge>>
              ELSE /\ UNCHANGED bwDrops
                   /\ IF w = "werr" \/ sess[sid].closed
                      THEN CleanupSession(sid, sess)
                      ELSE /\ sess' = [sess EXCEPT ![sid].bytes = @ + PacketSize]
                           /\ UNCHANGED <<sessions, connections, totalConns, ugauge>>
    /\ UNCHANGED <<now, cfg, attempts, histVars, lsnVars, tcpVars, mgrVars>>
    /\ UNCHANGED <<admVars, bwLog, lastBw, attLog, aclVars, moreVars>>
    /\ UNCHANGED <<ucfg, nextSess, janitorStopped>>

\* startSessionReader, top of the loop: return if the session's context is done
\* (the deferred cleanupSession runs), else SetReadDeadline(now + session_timeout)
ReaderArm(s) ==
    /\ sess[s].rpc = "start"
    /\ IF sess[s].cancelled
       THEN CleanupSession(s, [sess EXCEPT ![s].rpc = "done", ![s].deadline = 0])
       ELSE /\ sess' = [sess EXCEPT ![s].rpc = "read",
                                    ![s].deadline = now + ucfg.sessionTimeout]
            /\ UNCHANGED <<sessions, connections, totalConns, ugauge>>
    /\ UNCHANGED <<now, cfg, attempts, buckets, histVars, auxVars, lsnVars, tcpVars, mgrVars>>
    /\ UNCHANGED <<ucfg, nextSess, hpc, janitorStopped>>

\* TargetConn.Read fails with a timeout at the deadline: return, cleanupSession
\* (the reader's deadline is forgotten once it has returned)
ReaderTimeout(s) ==
    /\ sess[s].rpc = "read"
    /\ ~sess[s].closed
    /\ now >= sess[s].deadline
    /\ CleanupSession(s, [sess EXCEPT ![s].rpc = "done", ![s].deadline = 0])
    /\ UNCHANGED <<now, cfg, attempts, buckets, histVars, auxVars, lsnVars, tcpVars, mgrVars>>
    /\ UNCHANGED <<ucfg, nextSess, hpc, janitorStopped>>

\* TargetConn.Read fails with another error (the socket was closed, or the target
\* is unreachable): the error is logged, return, cleanupSession
ReaderReadErr(s) ==
    /\ sess[s].rpc = "read"
    /\ CleanupSession(s, [sess EXCEPT ![s].rpc = "done", ![s].deadline = 0])
    /\ UNCHANGED <<now, cfg, attempts, buckets, histVars, auxVars, lsnVars, tcpVars, mgrVars>>
    /\ UNCHANGED <<ucfg, nextSess, hpc, janitorStopped>>

\* the session after a datagram was sent back to the client: AddBytesReceived,
\* UpdateActivity, and when ShouldLogPeriodic the update event and UpdatePeriodicLog
\* (lateUpd: an update event was logged after the session's close event)
Delivered(srec, u, t) ==
    LET s1 == [srec EXCEPT !.rpc = "start", !.bytes = @ + PacketSize,
                           !.lastActivity = t]
        marks == [sent |-> s1.bytes, recv |-> 0, last |-> s1.logAt,
                  lastBytes |-> s1.logBytes]
    IN  IF ShouldLogPeriodic(marks, u.periodicInterval, u.periodicBytes, t)
        THEN [s1 EXCEPT !.updN = @ + 1,
                        !.lateUpd = @ \/ s1.closeN > 0,
                        !.logAt = UpdatePeriodicLog(marks, t).last,
                        !.logBytes = UpdatePeriodicLog(marks, t).lastBytes]
        ELSE s1

\* TargetConn.Read returns a datagram: AllowBandwidth (denied:
\* rate_limit_drops{bandwidth_limit} and return), WriteToUDP
\* to the client (error, always on the closed listener socket: return), else the
\* counters, UpdateActivity and the periodic update, and the loop goes on
ReaderRecv(s, w) ==
    /\ sess[s].rpc = "read"
    /\ ~sess[s].closed
    /\ LET ip == KeyIP(sess[s].key)
           r == AllowBandwidth(cfg, buckets[ip], PacketSize, now)
       IN  /\ buckets' = [buckets EXCEPT ![ip] = r[2]]
           /\ IF r[1] THEN UNCHANGED bwDrops
              ELSE bwDrops < MaxBwDrops /\ bwDrops' = bwDrops + 1
           /\ IF ~r[1] \/ w = "werr" \/ ~listening
              THEN CleanupSession(s, [sess EXCEPT ![s].rpc = "done", ![s].deadline = 0])
              ELSE /\ sess' = [sess EXCEPT ![s] = Delivered(@, ucfg, now)]
                   /\ UNCHANGED <<sessions, connections, totalConns, ugauge>>
    /\ UNCHANGED <<now, cfg, attempts, histVars, lsnVars, tcpVars, mgrVars>>
    /\ UNCHANGED <<admVars, bwLog, lastBw, attLog, aclVars, moreVars>>
    /\ UNCHANGED <<ucfg, nextSess, hpc, janitorStopped>>

\* TargetConn.Read has returned a datagram; the reader has not yet handled it
ReaderGot(s) ==
    /\ sess[s].rpc = "read"
    /\ ~sess[s].closed
    /\ sess' = [sess EXCEPT ![s].rpc = "got"]
    /\ UNCHANGED <<sessions, connections, totalConns, ugauge>>
    /\ UNCHANGED <<now, cfg, attempts, buckets, histVars, auxVars, lsnVars, tcpVars, mgrVars>>
    /\ UNCHANGED <<ucfg, nextSess, hpc, janitorStopped>>

\* the reader handles the datagram it has read: AllowBandwidth, WriteToUDP, the
\* counters, UpdateActivity and the periodic update, as in ReaderRecv
ReaderDeliver(s, w) ==
    /\ sess[s].rpc = "got"
    /\ LET ip == KeyIP(sess[s].key)
           r == AllowBandwidth(cfg, buckets[ip], PacketSize, now)
       IN  /\ buckets' = [buckets EXCEPT ![ip] = r[2]]
           /\ IF r[1] THEN UNCHANGED bwDrops
              ELSE bwDrops < MaxBwDrops /\ bwDrops' = bwDrops + 1
           /\ IF ~r[1] \/ w = "werr" \/ ~listening
              THEN CleanupSession(s, [sess EXCEPT ![s].rpc = "done", ![s].deadline = 0])
              ELSE /\ sess' = [sess EXCEPT ![s] = Delivered(@, ucfg, now)]
                   /\ UNCHANGED <<sessions, connections, totalConns, ugauge>>
    /\ UNCHANGED <<now, cfg, attempts, histVars, lsnVars, tcpVars, mgrVars>>
    /\ UNCHANGED <<admVars, bwLog, lastBw, attLog, aclVars, moreVars>>
    /\ UNCHANGED <<ucfg, nextSess, hpc, janitorStopped>>

\* the sessions SessionManager.cleanup finds expired
Expired == {k \in Keys : sessions[k] # 0
                         /\ now - sess[sessions[k]].lastActivity > ucfg.sessionTimeout}

\* SessionManager.cleanup (the janitor's tick): every expired session is deleted
\* from the table, cancelled, and its socket closed
SessionCleanup ==
    /\ ~janitorStopped
    /\ Expired # {}
    /\ sessions' = [k \in Keys |-> IF k \in Expired THEN 0 ELSE sessions[k]]
    /\ sess' = [i \in 1..MaxSess |->
                  IF \E k \in Expired : sessions[k] = i
                  THEN [sess[i] EXCEPT !.cancelled = TRUE, !.closed = TRUE, !.leftAt = now]
                  ELSE sess[i]]
    /\ UNCHANGED <<now, cfg, limVars, histVars, auxVars, lsnVars, tcpVars, mgrVars>>
    /\ UNCHANGED <<ucfg, nextSess, hpc, janitorStopped, ugauge>>

(***************************************************************************)
(* Manager.GracefulShutdown over the UDP listener                          *)
(***************************************************************************)
\* GracefulShutdown(timeout) calls Manager.Stop, which calls UDPListener.Stop:
\* l.cancel(), l.conn.Close()
GsBeginUDP(timeout) ==
    /\ mpc = "idle"
    /\ loopPc = "run"
    /\ mpc' = "closing"
    /\ gsTimeout' = timeout
    /\ gsStart' = now
    /\ lctx' = "cancelled"
    /\ listening' = FALSE
    /\ UNCHANGED <<now, cfg, limVars, histVars, auxVars, allowlist, loopPc, rlClosed, tcpVars>>
    /\ UNCHANGED <<selStart, doneClosed, gsResult, lateInFlight>>
    /\ UNCHANGED udpVars

\* UDPListener.Stop goes on: SessionManager.Close (stop the janitor, cancel every
\* session and close its socket, replace the table by an empty one), then
\* rateLimiter.Close, then l.wg.Wait
SessionManagerClose ==
    /\ mpc = "closing"
    /\ mpc' = "stopwait"
    /\ janitorStopped' = TRUE
    /\ sess' = [i \in 1..MaxSess |->
                  IF \E k \in Keys : sessions[k] = i
                  THEN [sess[i] EXCEPT !.cancelled = TRUE, !.closed = TRUE, !.leftAt = now]
                  ELSE sess[i]]
    /\ sessions' = [k \in Keys |-> 0]
    /\ rlClosed' = TRUE
    /\ UNCHANGED <<now, cfg, limVars, histVars, auxVars, allowlist, listening, lctx, loopPc, tcpVars>>
    /\ UNCHANGED <<gsTimeout, gsStart, selStart, doneClosed, gsResult, lateInFlight>>
    /\ UNCHANGED <<ucfg, nextSess, hpc, ugauge>>

\* readLoop: between packets, ctx is done (ReadFromUDP fails on the closed socket):
\* the loop returns
ReadLoopExit ==
    /\ loopPc = "run"
    /\ hpc.pc = "idle"
    /\ lctx = "cancelled"
    /\ loopPc' = "done"
    /\ UNCHANGED <<now, cfg, limVars, histVars, auxVars, allowlist, listening, lctx, rlClosed>>
    /\ UNCHANGED <<tcpVars, mgrVars, udpVars>>

\* UDPListener.Stop: l.wg.Wait returns once readLoop has returned (the session
\* readers are not in the WaitGroup); Manager.Stop returns and GracefulShutdown
\* enters its select
GsStopReturnsUDP ==
    /\ mpc = "stopwait"
    /\ loopPc = "done"
    /\ mpc' = "select"
    /\ selStart' = now
    /\ UNCHANGED <<now, cfg, limVars, histVars, auxVars, lsnVars, tcpVars, udpVars>>
    /\ UNCHANGED <<gsTimeout, gsStart, doneClosed, gsResult, lateInFlight>>

\* time passes
UdpTick ==
    /\ now < UdpMaxTime
    /\ now' = now + 1
    /\ UNCHANGED <<cfg, limVars, histVars, pipeVars>>

UdpInit ==
    /\ now = 0
    /\ cfg \in UDPLimits
    /\ LimitersEmpty
    /\ HistoryEmpty
    /\ allowlist = <<{"ip1", "ip2"}>>
    /\ ListenerNotStarted
    /\ TCPIdle
    /\ ManagerIdle
    /\ ucfg \in UDPConfigs
    /\ UDPIdle
    /\ AuxIdle

\* the steps of the goroutines that the scheduler takes by itself
UdpOwnStep ==
    \/ UdpAdmit
    \/ \E s \in 1..MaxSess : ReaderArm(s)
    \/ \E s \in 1..MaxSess : ReaderTimeout(s)
    \/ SessionCleanup
    \/ SessionManagerClose
    \/ ReadLoopExit
    \/ GsStopReturnsUDP
    \/ GsWaiter
    \/ GsReturnNil
    \/ GsReturnTimeout

UdpNext ==
    \/ UdpStart
    \/ \E k \in Keys, d \in BOOLEAN : UdpRecv(k, d)
    \/ \E w \in WriteResults : UdpForward(w)
    \/ \E s \in 1..MaxSess : ReaderReadErr(s)
    \/ \E s \in 1..MaxSess, w \in WriteResults : ReaderRecv(s, w)
    \/ \E t \in GsTimeouts : GsBeginUDP(t)
    \/ UdpOwnStep
    \/ UdpTick

UdpSpec == UdpInit /\ [][UdpNext]_vars

(***************************************************************************)
(* Properties of the UDP pipeline (checked under UdpSpec)                  *)
(***************************************************************************)
\* an admitted session is over: it has left the table and its reader has returned
SessionOver(s) ==
    /\ s \in Created
    /\ sess[s].admitted
    /\ sess[s].leftAt >= 0
    /\ sess[s].rpc = "done"

\* C2: for every UDP session admitted by AllowConnection, ReleaseConnection and
\* ReleaseTotalConnection are each called exactly once, whichever path takes the
\* session out of the table (reader timeout, I/O error, bandwidth denial, the
\* janitor's idle expiry, listener shutdown); never twice, and never for a session
\* that was not admitted.
C2_UdpReleasedExactlyOnce ==
    \A s \in Created :
        /\ sess[s].relConnN <= 1
        /\ sess[s].relTotalN <= 1
        /\ ~sess[s].admitted => (sess[s].relConnN = 0 /\ sess[s].relTotalN = 0)
        /\ SessionOver(s) => (sess[s].relConnN = 1 /\ sess[s].relTotalN = 1)

\* C3: with log_close enabled, an admitted session that meets min_log_duration and
\* min_log_bytes when it leaves the table has exactly one close event once it is
\* over, whichever path ended it; no session ever has two.
C3_UdpCloseLoggedExactlyOnce ==
    \A s \in Created :
        /\ sess[s].closeN <= 1
        /\ (/\ SessionOver(s)
            /\ ShouldLogClose(ucfg, sess[s].bytes, sess[s].leftAt - sess[s].createdAt))
              => sess[s].closeN = 1

\* C4: once GracefulShutdown has returned and every session reader has returned,
\* the connections_active gauges of the listeners are zero.
C4_GaugesZeroAfterShutdown ==
    (mpc = "returned" /\ ReadersRunning = {}) => (ugauge = 0 /\ gauge = 0)

(***************************************************************************)
(* The admission race: after some serial history, two handlers call        *)
(* AllowConnection for the same source IP at the same time.  The calls run *)
(* as the steps of HandleConnection above (RecordAttempt, the atomic add   *)
(* and its undo, connLimiter.Allow and the rollback), interleaved freely.  *)
(***************************************************************************)
\* bounds: serial calls made before the race, the clock
MaxPrep == 3
AdmMaxTime == 2

\* the address of the two racing calls, and the addresses of the earlier calls
RaceIP == "ip1"
PrepIPs == {"ip1", "ip2"}

\* the rate limits in the admission race
AdmConfigs ==
    { [NoLimits EXCEPT !.maxConnPerIP = 1, !.connWindow = 2,
                       !.maxAttempts = a, !.attemptWindow = 2, !.maxTotal = m] :
        a \in {2, 3}, m \in {1, 2} }

\* an AllowConnection call has returned: admitted (about to log the open event) or
\* rejected
Finished(c) == tpc[c] \in {"open", "done"}

\* a serial AllowConnection(ip) before the race
PrepAllow(ip) ==
    /\ ~snap.taken
    /\ snap.calls < MaxPrep
    /\ LET r == AllowConnection(cfg, attempts, totalConns, connections, ip, now)
       IN  /\ attempts' = r.attempts
           /\ totalConns' = r.total
           /\ connections' = r.connections
    /\ snap' = [snap EXCEPT !.calls = @ + 1]
    /\ UNCHANGED <<now, cfg, buckets, histVars, fnVars, aclVars, moreVars, lsnVars, tcpVars, mgrVars, udpVars>>

\* a connection of ip admitted earlier ends: ReleaseTotalConnection, ReleaseConnection
PrepRelease(ip) ==
    /\ ~snap.taken
    /\ snap.calls < MaxPrep
    /\ connections[ip].count > 0
    /\ totalConns > 0
    /\ totalConns' = ReleaseTotalConnection(cfg, totalConns)
    /\ connections' = ReleaseConnection(cfg, connections, ip)
    /\ snap' = [snap EXCEPT !.calls = @ + 1]
    /\ UNCHANGED <<now, cfg, attempts, buckets, histVars, fnVars, aclVars, moreVars, lsnVars, tcpVars, mgrVars, udpVars>>

\* time passes before the race
AdmTick ==
    /\ ~snap.taken
    /\ now < AdmMaxTime
    /\ now' = now + 1
    /\ UNCHANGED <<cfg, limVars, histVars, pipeVars>>

\* two connections from RaceIP are accepted and pass the ACL: both handlers are
\* about to call AllowConnection; the limiters' state is remembered
BeginRace ==
    /\ ~snap.taken
    /\ snap' = [taken |-> TRUE, calls |-> snap.calls, attempts |-> attempts,
                total |-> totalConns, connections |-> connections]
    /\ tpc' = [c \in Conns |-> "attempt"]
    /\ tip' = [c \in Conns |-> RaceIP]
    /\ UNCHANGED <<now, cfg, limVars, histVars, fnVars, aclVars, moreVars, lsnVars, mgrVars, udpVars>>
    /\ UNCHANGED <<dir, admitted, relConnN, relTotalN, openN, closeN, sockClosed, gauge>>

AdmInit ==
    /\ now = 0
    /\ cfg \in AdmConfigs
    /\ LimitersEmpty
    /\ HistoryEmpty
    /\ allowlist = <<{"ip1", "ip2"}>>
    /\ ListenerNotStarted
    /\ TCPIdle
    /\ ManagerIdle
    /\ ucfg = NoUDP
    /\ UDPIdle
    /\ AuxIdle

AdmNext ==
    \/ \E ip \in PrepIPs : PrepAllow(ip)
    \/ \E ip \in PrepIPs : PrepRelease(ip)
    \/ AdmTick
    \/ BeginRace
    \/ \E c \in Conns : TcpAttempt(c)
    \/ \E c \in Conns : TcpTotal(c)
    \/ \E c \in Conns : TcpTotalUndo(c)
    \/ \E c \in Conns : TcpPerIP(c)
    \/ \E c \in Conns : TcpRollback(c)

AdmSpec == AdmInit /\ [][AdmNext]_vars

\* the outcome of the two calls made one after the other from the remembered state:
\* the result of the first, the result of the second, the state after both
SerialOutcome ==
    LET s1 == AllowConnection(cfg, snap.attempts, snap.total, snap.connections, RaceIP, now)
        s2 == AllowConnection(cfg, s1.attempts, s1.total, s1.connections, RaceIP, now)
    IN  [first |-> s1.ok, second |-> s2.ok, attempts |-> s2.attempts,
         total |-> s2.total, connections |-> s2.connections]

MaxBwCalls == 4
BwMaxTime == 5

\* the IP of the calls; the chunk and datagram sizes (callers pass nr > 0 only)
BwIP == "ip1"
BwSizes == {1, 2, 3}

\* max_bandwidth_per_ip 2 in a window of 2, every action, throttle_minimum 0 or 1
BwConfigs ==
    { [NoLimits EXCEPT !.maxBW = 2, !.bwWindow = 2, !.action = a, !.throttleMin = m] :
        a \in {"", "drop", "throttle", "log_only"}, m \in {0, 1} }

\* the caller's violation log for a chunk: IsBandwidthOverLimit is asked after
\* AllowBandwidth, on the bucket as AllowBandwidth left it; the log is written under
\* log_only, and under the other actions when the chunk was denied
ViolationLogged(c, after, bytes, t, allowed) ==
    /\ IsBandwidthOverLimit(c, after, bytes, t)
    /\ (GetAction(c) = "log_only" \/ ~allowed)

\* a caller (copyWithStats, HandlePacket, startSessionReader) asks AllowBandwidth for
\* bytes, then IsBandwidthOverLimit for the violation log; on false it increments
\* rate_limit_drops{bandwidth_limit}
BwCall(bytes) ==
    /\ Len(bwLog) < MaxBwCalls
    /\ LET b == buckets[BwIP]
           r == AllowBandwidth(cfg, b, bytes, now)
       IN  /\ buckets' = [buckets EXCEPT ![BwIP] = r[2]]
           /\ bwLog' = Append(bwLog, [t |-> now, bytes |-> bytes, ret |-> r[1]])
           /\ lastBw' = [called |-> TRUE, t |-> now, bytes |-> bytes, ret |-> r[1],
                         before |-> b.entries, after |-> r[2].entries,
                         logged |-> ViolationLogged(cfg, r[2], bytes, now, r[1])]
           /\ bwDrops' = bwDrops + (IF r[1] THEN 0 ELSE 1)
    /\ UNCHANGED <<now, cfg, connections, attempts, totalConns, histVars>>
    /\ UNCHANGED <<lsnVars, tcpVars, mgrVars, udpVars, admVars, aclVars, moreVars, attLog>>

\* time passes
BwTick ==
    /\ now < BwMaxTime
    /\ now' = now + 1
    /\ UNCHANGED <<cfg, limVars, histVars, pipeVars>>

BwInit ==
    /\ now = 0
    /\ cfg \in BwConfigs
    /\ LimitersEmpty
    /\ HistoryEmpty
    /\ allowlist = <<{"ip1", "ip2"}>>
    /\ ListenerNotStarted
    /\ TCPIdle
    /\ ManagerIdle
    /\ ucfg = NoUDP
    /\ UDPIdle
    /\ AuxIdle

BwNext ==
    \/ \E n \in BwSizes : BwCall(n)
    \/ ReclaimBuckets
    \/ BwTick

BwSpec == BwInit /\ [][BwNext]_vars

(***************************************************************************)
(* Properties of the bandwidth limiter (checked under BwSpec)              *)
(***************************************************************************)
\* the entries of es that are inside the window of length w ending at t
InWindow(es, t, w) == SelectSeq(es, LAMBDA e : e.timestamp > t - w /\ e.timestamp <= t)

\* the bytes of the calls that returned true inside the window of length w ending at t
AllowedBytes(t, w) ==
    SumBytes(SelectSeq(bwLog, LAMBDA e : e.ret /\ e.t > t - w /\ e.t <= t))

\* the last call: usage before it, whether it took the IP over the limit, whether it
\* was recorded (its entry appended to the unexpired ones) or left them as they were
LastUsage == SumBytes(InWindow(lastBw.before, lastBw.t, cfg.bwWindow))
LastOver == LastUsage + lastBw.bytes > cfg.maxBW
LastRecorded ==
    InWindow(lastBw.after, lastBw.t, cfg.bwWindow) =
        Append(InWindow(lastBw.before, lastBw.t, cfg.bwWindow),
               [bytes |-> lastBw.bytes, timestamp |-> lastBw.t])
LastUntouched ==
    InWindow(lastBw.after, lastBw.t, cfg.bwWindow) =
        InWindow(lastBw.before, lastBw.t, cfg.bwWindow)

C13_DeniedNotRecorded ==
    (BandwidthAction(cfg) = "drop" /\ lastBw.called /\ ~lastBw.ret) => LastUntouched

\* C13 witness: a call was denied under drop while the IP had unexpired usage, and
\* a call made before it in the same window had been allowed.
C13_Witness ==
    /\ BandwidthAction(cfg) = "drop"
    /\ lastBw.called /\ ~lastBw.ret
    /\ LastUsage > 0
    /\ lastBw.bytes <= cfg.maxBW

\* C14: under action=throttle a call that takes the IP over the limit returns true
\* and is recorded iff throttle_minimum > 0 and bytes <= throttle_minimum, and
\* otherwise returns false and records nothing; a call within the limit is allowed
\* and recorded whatever its size.
C14_ThrottleDecision ==
    (BandwidthAction(cfg) = "throttle" /\ lastBw.called) =>
        IF LastOver
        THEN IF cfg.throttleMin > 0 /\ lastBw.bytes <= cfg.throttleMin
             THEN lastBw.ret /\ LastRecorded
             ELSE ~lastBw.ret /\ LastUntouched
        ELSE lastBw.ret /\ LastRecorded

\* C14 witness: under throttle with a minimum, an over-limit call of at most the
\* minimum was allowed after a larger over-limit call had been denied.
C14_Witness ==
    /\ BandwidthAction(cfg) = "throttle"
    /\ cfg.throttleMin > 0
    /\ lastBw.called /\ LastOver /\ lastBw.ret
    /\ \E i \in 1..Len(bwLog) : ~bwLog[i].ret /\ bwLog[i].bytes <= cfg.maxBW

\* C15: under action=throttle the bytes allowed beyond the ceiling in one window
\* are at most throttle_minimum: in every window of length W the allowed bytes sum
\* to at most max_bandwidth_per_ip + throttle_minimum.
C15_ThrottleShrinksToMinimum ==
    BandwidthAction(cfg) = "throttle" =>
        \A t \in 0..now : AllowedBytes(t, cfg.bwWindow) <= cfg.maxBW + cfg.throttleMin

\* C16: under action=log_only every AllowBandwidth call returns true and is
\* recorded, and rate_limit_drops{bandwidth_limit} stays 0.
C16_LogOnlyAllowsAndRecords ==
    BandwidthAction(cfg) = "log_only" =>
        /\ \A i \in 1..Len(bwLog) : bwLog[i].ret
        /\ bwDrops = 0
        /\ lastBw.called => LastRecorded

\* C16 witness: under log_only a call that took the IP over the limit returned true.
C16_Witness ==
    /\ BandwidthAction(cfg) = "log_only"
    /\ lastBw.called /\ LastOver /\ lastBw.ret
    /\ Len(bwLog) >= 3

(***************************************************************************)
(* The attempt specification: RecordAttempt calls for one IP (serialised   *)
(* by the entry's mutex), the reclaimer's passes between calls, the clock. *)
(***************************************************************************)
\* bounds: RecordAttempt calls, the clock
MaxAttCalls == 4
AttMaxTime == 5

\* the IP of the calls
AttIP == "ip1"

\* max_attempts_per_ip 1 or 2 in a window of 2
AttConfigs ==
    { [NoLimits EXCEPT !.maxAttempts = n, !.attemptWindow = 2] : n \in {1, 2} }

\* AllowConnection's first step for a connection or new session of AttIP
AttCall ==
    /\ Len(attLog) < MaxAttCalls
    /\ LET r == RecordAttempt(attempts[AttIP], now, cfg.maxAttempts, cfg.attemptWindow)
       IN  /\ attempts' = [attempts EXCEPT ![AttIP] = r[2]]
           /\ attLog' = Append(attLog, [t |-> now, ret |-> r[1]])
    /\ UNCHANGED <<now, cfg, connections, buckets, totalConns, histVars>>
    /\ UNCHANGED <<lsnVars, tcpVars, mgrVars, udpVars, admVars, aclVars, moreVars, bwLog, lastBw, bwDrops>>

\* time passes
AttTick ==
    /\ now < AttMaxTime
    /\ now' = now + 1
    /\ UNCHANGED <<cfg, limVars, histVars, pipeVars>>

AttInit ==
    /\ now = 0
    /\ cfg \in AttConfigs
    /\ LimitersEmpty
    /\ HistoryEmpty
    /\ allowlist = <<{"ip1", "ip2"}>>
    /\ ListenerNotStarted
    /\ TCPIdle
    /\ ManagerIdle
    /\ ucfg = NoUDP
    /\ UDPIdle
    /\ AuxIdle

AttNext ==
    \/ AttCall
    \/ ReclaimAttempts
    \/ AttTick

AttSpec == AttInit /\ [][AttNext]_vars

\* the calls before the i-th that are inside the window of the i-th call
AttemptsBefore(i) ==
    {j \in 1..(i - 1) : attLog[j].t > attLog[i].t - cfg.attemptWindow}

AddrBits == 1
MaxEntries == 2

\* address families (IPv4, IPv6), addresses, allowlist entries
Families == {4, 6}
Addrs == [fam : Families, val : 0..(2^AddrBits - 1)]
Entries ==
    [kind : {"cidr"}, fam : Families, addr : 0..(2^AddrBits - 1), bits : 0..AddrBits]
      \cup [kind : {"ip"}, fam : Families, addr : 0..(2^AddrBits - 1), bits : {0}]

\* the lists of at most n entries
EntryLists(n) == UNION {[1..k -> Entries] : k \in 0..n}

\* IP.Mask: the first bits bits of val, the others cleared
MaskAddr(val, bits) == val - (val % (2^(AddrBits - bits)))

\* net.ParseCIDR: the network of address/bits (the address is masked)
ParseCIDR(fam, addr, bits) == [fam |-> fam, base |-> MaskAddr(addr, bits), bits |-> bits]

\* parseCIDROrIP: a CIDR entry is parsed as it is, a bare address a becomes a/32
\* (IPv4) or a/128 (IPv6), the host prefix of its family
ParseCIDROrIP_BareIsAny(e) ==
    IF e.kind = "cidr" THEN ParseCIDR(e.fam, e.addr, e.bits)
    ELSE ParseCIDR(e.fam, e.addr, 0)
ParseCIDROrIP(e) ==
    IF e.kind = "cidr" THEN ParseCIDR(e.fam, e.addr, e.bits)
    ELSE IF e.fam = 4 THEN ParseCIDR(4, e.addr, AddrBits)
    ELSE ParseCIDR(6, e.addr, AddrBits)

\* IPNet.Contains: same family and same masked address
Contains(net, ip) == ip.fam = net.fam /\ MaskAddr(ip.val, net.bits) = net.base

\* NewAllowlist: the rules, one per entry, in the entries' order (a rule stands
\* for the addresses it contains)
NewAllowlist(entries) ==
    [i \in 1..Len(entries) |-> {a \in Addrs : Contains(ParseCIDROrIP(entries[i]), a)}]

\* a listener calls IsAllowed for the source address of a connection or datagram
AclCheck(ip) ==
    /\ aclLast' = [called |-> TRUE, ip |-> ip, ret |-> IsAllowed(allowlist, ip)]
    /\ UNCHANGED <<now, cfg, limVars, histVars, lsnVars, tcpVars, mgrVars, udpVars>>
    /\ UNCHANGED <<admVars, fnVars, aclEntries, aclDrops, aclDenied, moreVars>>

AclInit ==
    /\ now = 0
    /\ cfg = NoLimits
    /\ LimitersEmpty
    /\ HistoryEmpty
    /\ aclEntries \in EntryLists(MaxEntries)
    /\ allowlist = NewAllowlist(aclEntries)
    /\ ListenerNotStarted
    /\ TCPIdle
    /\ ManagerIdle
    /\ ucfg = NoUDP
    /\ UDPIdle
    /\ aclLast = NoAclCheck
    /\ aclDrops = 0
    /\ aclDenied = 0
    /\ MoreIdle
    /\ snap = NoSnap
    /\ bwLog = <<>>
    /\ lastBw = NoBwCall
    /\ bwDrops = 0
    /\ attLog = <<>>

AclNext == \E ip \in Addrs : AclCheck(ip)

AclSpec == AclInit /\ [][AclNext]_vars

\* ip falls in the prefix an entry denotes: same family, and the same leading bits
\* over the entry's prefix length (the whole width for a bare address)
EntryCovers(e, ip) ==
    LET bits == IF e.kind = "ip" THEN AddrBits ELSE e.bits
    IN  /\ e.fam = ip.fam
        /\ ip.val \div (2^(AddrBits - bits)) = e.addr \div (2^(AddrBits - bits))

\* the entries in the opposite order
ReversedEntries == [i \in 1..Len(aclEntries) |-> aclEntries[Len(aclEntries) + 1 - i]]

\* C18: IsAllowed(ip) is true iff ip falls in the prefix of at least one entry (a
\* bare address being the host prefix), whatever the order of the entries; with
\* no entry it is false for every ip.
C18_AllowedIffInSomePrefix ==
    aclLast.called =>
        /\ aclLast.ret <=> \E i \in 1..Len(aclEntries) : EntryCovers(aclEntries[i], aclLast.ip)
        /\ aclLast.ret = IsAllowed(NewAllowlist(ReversedEntries), aclLast.ip)
        /\ Len(aclEntries) = 0 => ~aclLast.ret

\* C18 witness: an address was allowed by the second of two entries, a bare
\* address, while the first entry, of the same family, does not contain it.
C18_Witness ==
    /\ aclLast.called /\ aclLast.ret
    /\ Len(aclEntries) = 2
    /\ aclEntries[2].kind = "ip"
    /\ aclEntries[1].fam = aclLast.ip.fam
    /\ ~EntryCovers(aclEntries[1], aclLast.ip)


(***************************************************************************)
(* The ACL check of a listener, TCP or UDP: accepted connections and       *)
(* received datagrams up to their admission and forwarding                 *)
(***************************************************************************)
\* a TCP listener (no UDP block) or a UDP listener
AclDropInit == TcpInit \/ (UdpInit /\ ucfg.minLogBytes = 0)

\* the steps of a TCP handler up to the open event
TcpAdmissionStep(c) ==
    \/ \E ip \in SrcIPs : TcpAccept(c, ip)
    \/ TcpAttempt(c)
    \/ TcpTotal(c)
    \/ TcpTotalUndo(c)
    \/ TcpPerIP(c)
    \/ TcpRollback(c)
    \/ TcpOpen(c)

\* the steps of HandlePacket
UdpPacketStep ==
    \/ \E k \in Keys, d \in BOOLEAN : UdpRecv(k, d)
    \/ UdpAdmit
    \/ \E w \in WriteResults : UdpForward(w)

AclDropNext ==
    \/ ucfg = NoUDP /\ TcpStart
    \/ ucfg = NoUDP /\ \E c \in Conns : TcpAdmissionStep(c)
    \/ ucfg = NoUDP /\ TcpTick
    \/ ucfg # NoUDP /\ UdpStart
    \/ ucfg # NoUDP /\ UdpPacketStep
    \/ ucfg # NoUDP /\ UdpTick

AclDropSpec == AclDropInit /\ [][AclDropNext]_vars

\* a step in which connection c is accepted from a source the allowlist denies
TcpDeniedStep(c) == tpc[c] = "new" /\ tpc'[c] # "new" /\ ~IsAllowed(allowlist, tip'[c])

\* a step that counts an ACL drop
AclDropStep == aclDrops' # aclDrops \/ aclDenied' # aclDenied

\* nothing but the two ACL metrics changes: no limiter state, no session, no open
\* event, no gauge
OnlyAclMetricsChange ==
    /\ aclDrops' = aclDrops + 1
    /\ aclDenied' = aclDenied + 1
    /\ UNCHANGED <<attempts, connections, buckets, totalConns>>
    /\ UNCHANGED <<sessions, sess, nextSess, hpc, ugauge>>
    /\ UNCHANGED <<openN, admitted, gauge>>

UdpIdleNext ==
    \/ UdpStart
    \/ \E k \in Keys, d \in BOOLEAN : UdpRecv(k, d)
    \/ UdpAdmit
    \/ UdpForward("ok")
    \/ \E s \in 1..MaxSess : ReaderArm(s)
    \/ \E s \in 1..MaxSess : ReaderTimeout(s)
    \/ \E s \in 1..MaxSess : sess[s].closed /\ ReaderReadErr(s)
    \/ SessionCleanup
    \/ UdpTick

UdpIdleSpec == UdpInit /\ [][UdpIdleNext]_vars

\* the admitted sessions that have left the session table
Destroyed == {i \in Created : sess[i].admitted /\ sess[i].leftAt >= 0}

\* C20: with no upstream failure and no shutdown, an admitted session leaves the
\* session table only when it has been idle for session_timeout: the time between
\* its last activity and its removal is at least session_timeout.
C20_DestroyedOnlyWhenIdle ==
    \A i \in Destroyed : sess[i].leftAt - sess[i].lastActivity >= ucfg.sessionTimeout


(***************************************************************************)
(* A UDP listener that is not shut down, whose janitor finds nothing and   *)
(* whose upstream sends nothing, with datagrams from two allowed sources:  *)
(* sessions leave the table only through SessionManager.Remove             *)
(***************************************************************************)
UdpRemoveNext ==
    \/ UdpStart
    \/ \E k \in {"ip1:1", "ip1:2"} : UdpRecv(k, TRUE)
    \/ UdpAdmit
    \/ \E w \in WriteResults : UdpForward(w)
    \/ \E s \in 1..MaxSess : ReaderArm(s)
    \/ \E s \in 1..MaxSess : ReaderTimeout(s)
    \/ \E s \in 1..MaxSess : ReaderReadErr(s)
    \/ UdpTick

UdpRemoveSpec == UdpInit /\ [][UdpRemoveNext]_vars

\* no other Session was ever created for the source address of session i
OnlySessionOfKey(i) == \A j \in Created \ {i} : sess[j].key # sess[i].key

\* C21: for a session with no other creation under its key, the Remove(id) calls
\* return the session once and nil afterwards: once Remove has been called the
\* session is out of the table, and cleanupSession has run its body (the
\* releases; the close event at most once) exactly once if the session was
\* admitted, whatever the number of Remove calls.
C21_RemoveIdempotent ==
    \A i \in Created : OnlySessionOfKey(i) =>
        /\ sess[i].relConnN <= 1 /\ sess[i].relTotalN <= 1 /\ sess[i].closeN <= 1
        /\ sess[i].removeCalls >= 1 =>
              /\ sess[i].leftAt >= 0
              /\ sessions[sess[i].key] = 0
              /\ sess[i].relConnN = (IF sess[i].admitted THEN 1 ELSE 0)
              /\ sess[i].relTotalN = sess[i].relConnN

\* C21 witness: Remove was called twice for a session (by the reader's deferred
\* cleanupSession and by HandlePacket's after a write error) and the body ran once.
C21_Witness ==
    \E i \in Created :
        /\ OnlySessionOfKey(i)
        /\ sess[i].removeCalls = 2
        /\ sess[i].rpc = "done"
        /\ sess[i].relConnN = 1 /\ sess[i].closeN = 1 /\ ugauge = 0


(***************************************************************************)
(* Manager.Start and Manager.Stop over several listeners                   *)
(***************************************************************************)
\* bound: connection handlers in flight on one TCP listener
MaxHandlers == 1

IsTCP(l) == l \in {"tcp1", "tcp2"}

\* Manager.Start is called: the range loop over m.listeners begins
MgrStartBegin ==
    /\ startPc = "idle"
    /\ startPc' = "starting"
    /\ startTodo' = Listeners
    /\ UNCHANGED <<lsns, stopTodo, stopCur>>

\* Manager.Stop, first part: m.cancel() cancels the context every listener's
\* context derives from; the range loop over m.listeners begins
MgrStopBegin ==
    /\ lsns' = [l \in Listeners |-> [lsns[l] EXCEPT !.ctx = "cancelled"]]
    /\ stopTodo' = Listeners
    /\ stopCur' = ""

\* (variant) Start returns the error without stopping anything
MgrStartListener_NoStop(l, ok) ==
    /\ startPc = "starting"
    /\ l \in startTodo
    /\ startTodo' = startTodo \ {l}
    /\ IF ok
       THEN /\ lsns' = [lsns EXCEPT ![l].sock = "open", ![l].loop = "run"]
            /\ startPc' = IF startTodo' = {} THEN "started" ELSE "starting"
       ELSE /\ startPc' = "failed"
            /\ UNCHANGED lsns
    /\ UNCHANGED <<stopTodo, stopCur>>

\* Manager.Start, one iteration (the map is ranged in any order): listener.Start
\* binds and starts its loop, or fails, and then Start calls m.Stop()
MgrStartListener(l, ok) ==
    /\ startPc = "starting"
    /\ l \in startTodo
    /\ startTodo' = startTodo \ {l}
    /\ IF ok
       THEN /\ lsns' = [lsns EXCEPT ![l].sock = "open", ![l].loop = "run"]
            /\ startPc' = IF startTodo' = {} THEN "started" ELSE "starting"
            /\ UNCHANGED <<stopTodo, stopCur>>
       ELSE /\ startPc' = "stopping"
            /\ MgrStopBegin

\* TCPListener.Stop / UDPListener.Stop up to wg.Wait: l.cancel(), the socket is
\* closed if there is one, rateLimiter.Close
ListenerStopBegin(l) ==
    /\ startPc = "stopping"
    /\ stopCur = ""
    /\ l \in stopTodo
    /\ lsns' = [lsns EXCEPT ![l].ctx = "cancelled",
                            ![l].sock = IF @ = "none" THEN "none" ELSE "closed",
                            ![l].rlClosed = TRUE]
    /\ stopCur' = l
    /\ UNCHANGED <<startPc, startTodo, stopTodo>>

\* l.wg.Wait returns: the loop and every handler of the listener have returned;
\* after the last listener Stop returns and Start returns the error
ListenerStopReturn ==
    /\ stopCur # ""
    /\ lsns[stopCur].loop # "run"
    /\ lsns[stopCur].handlers = 0
    /\ stopTodo' = stopTodo \ {stopCur}
    /\ stopCur' = ""
    /\ startPc' = IF stopTodo' = {} THEN "failed" ELSE startPc
    /\ UNCHANGED <<lsns, startTodo>>

\* acceptLoop: Accept returns a connection, wg.Add(1), the handler starts
\* (readLoop handles its datagrams itself)
ListenerAccept(l) ==
    /\ IsTCP(l)
    /\ lsns[l].loop = "run"
    /\ lsns[l].sock = "open"
    /\ lsns[l].handlers < MaxHandlers
    /\ lsns' = [lsns EXCEPT ![l].handlers = @ + 1]
    /\ UNCHANGED <<startPc, startTodo, stopTodo, stopCur>>

\* a connection handler returns: wg.Done
ListenerHandlerDone(l) ==
    /\ lsns[l].handlers > 0
    /\ lsns' = [lsns EXCEPT ![l].handlers = @ - 1]
    /\ UNCHANGED <<startPc, startTodo, stopTodo, stopCur>>

\* acceptLoop / readLoop: Accept or ReadFromUDP fails on the closed socket and
\* the context is done: the loop returns
ListenerLoopExit(l) ==
    /\ lsns[l].loop = "run"
    /\ lsns[l].sock = "closed"
    /\ lsns[l].ctx = "cancelled"
    /\ lsns' = [lsns EXCEPT ![l].loop = "done"]
    /\ UNCHANGED <<startPc, startTodo, stopTodo, stopCur>>

BootInit ==
    /\ now = 0
    /\ cfg = NoLimits
    /\ LimitersEmpty
    /\ HistoryEmpty
    /\ allowlist = <<IPs>>
    /\ ListenerNotStarted
    /\ TCPIdle
    /\ ManagerIdle
    /\ ucfg = NoUDP
    /\ UDPIdle
    /\ AuxIdle

BootStep ==
    \/ MgrStartBegin
    \/ \E l \in Listeners, ok \in BOOLEAN : MgrStartListener(l, ok)
    \/ \E l \in Listeners : ListenerStopBegin(l)
    \/ ListenerStopReturn
    \/ \E l \in Listeners : ListenerAccept(l)
    \/ \E l \in Listeners : ListenerHandlerDone(l)
    \/ \E l \in Listeners : ListenerLoopExit(l)

BootNext ==
    BootStep /\ UNCHANGED <<now, cfg, limVars, histVars, lsnVars, tcpVars, mgrVars,
                            udpVars, admVars, fnVars, aclVars, statVars, gocVars,
                            raceVars, perVars>>

BootSpec == BootInit /\ [][BootNext]_vars

\* C22: when Manager.Start has returned an error, no listener has an open socket
\* or a running accept or receive loop.
C22_FailedStartLeavesNothingListening ==
    startPc = "failed" =>
        \A l \in Listeners : lsns[l].sock # "open" /\ lsns[l].loop # "run"

\* C22 witness: Start returned an error after two listeners had been started; both
\* were stopped, the third never had a socket.
C22_Witness ==
    /\ startPc = "failed"
    /\ \E l \in Listeners :
          /\ lsns[l].sock = "none"
          /\ \A o \in Listeners \ {l} : lsns[o].sock = "closed" /\ lsns[o].loop = "done"


(***************************************************************************)
(* Properties of the TCP byte counters and events (checked under Spec)     *)
(***************************************************************************)
\* C23: once the client-to-target direction of a connection has ended, the
\* connection has added to bytes_transferred_total{direction="sent"} exactly the
\* bytes read from the client that AllowBandwidth accepted.
C23_SentCountsAcceptedBytes ==
    \A c \in Conns : dir[c].c2t \in {"ok", "err"} => sentAdded[c] = accepted[c]


(***************************************************************************)
(* Properties of a serial AllowConnection call (checked under AdmSpec)     *)
(***************************************************************************)
\* a step that is a serial AllowConnection(ip) call returning false
RejectedCallStep(ip) ==
    /\ ~snap.taken /\ ~snap'.taken
    /\ snap'.calls = snap.calls + 1
    /\ attempts'[ip] # attempts[ip]
    /\ ~AllowConnection(cfg, attempts, totalConns, connections, ip, now).ok

\* C24: an AllowConnection call that returns false leaves the total counter and
\* the per-IP connection count of every address as they were; it keeps the attempt
\* it recorded.
C24_RejectionRestoresCounters ==
    [][\A ip \in PrepIPs : RejectedCallStep(ip) =>
          /\ totalConns' = totalConns
          /\ \A o \in IPs : connections'[o].count = connections[o].count
          /\ Len(attempts'[ip].timestamps) >= 1
          /\ attempts'[ip].timestamps[Len(attempts'[ip].timestamps)] = now]_vars

\* C24 witness: of two calls for one address, the second was rejected by the per-IP
\* limiter while the total limit had room; the total counter is back at 1.
C24_Witness ==
    /\ ~snap.taken /\ snap.calls = 2
    /\ cfg.maxTotal = 2
    /\ Len(attempts["ip1"].timestamps) = 2
    /\ connections["ip1"].count = 1
    /\ totalConns = 1


(***************************************************************************)
(* Concurrent SessionManager.GetOrCreate calls for one source address,     *)
(* step by step under SessionManager.mu; no Remove, no janitor             *)
(***************************************************************************)
\* the source address of the calls
GocKey == "ip1:1"

\* GetOrCreate, first lookup under the read lock: found, UpdateActivity and
\* return (session, false, nil); not found, go on to take the write lock
GocLookup(p) ==
    /\ gpc[p] = "call"
    /\ gmu = 0
    /\ IF sessions[GocKey] # 0
       THEN /\ sess' = [sess EXCEPT ![sessions[GocKey]].lastActivity = now]
            /\ gret' = [gret EXCEPT ![p] = [sid |-> sessions[GocKey], isNew |-> FALSE,
                                           err |-> FALSE]]
            /\ gpc' = [gpc EXCEPT ![p] = "done"]
       ELSE /\ gpc' = [gpc EXCEPT ![p] = "slow"]
            /\ UNCHANGED <<sess, gret>>
    /\ UNCHANGED <<sessions, nextSess, gmu>>

\* m.mu.Lock()
GocLock(p) ==
    /\ gpc[p] = "slow"
    /\ gmu = 0
    /\ gmu' = p
    /\ gpc' = [gpc EXCEPT ![p] = "locked"]
    /\ UNCHANGED <<sessions, sess, nextSess, gret>>

\* (variant) no second lookup under the write lock
GocCreate_NoRecheck(p, dialOk) ==
    /\ gpc[p] = "locked"
    /\ gmu = p
    /\ gmu' = 0
    /\ gpc' = [gpc EXCEPT ![p] = "done"]
    /\ IF ~dialOk
       THEN /\ gret' = [gret EXCEPT ![p] = [sid |-> 0, isNew |-> FALSE, err |-> TRUE]]
            /\ UNCHANGED <<sessions, sess, nextSess>>
       ELSE /\ nextSess < MaxSess
            /\ nextSess' = nextSess + 1
            /\ sess' = [sess EXCEPT ![nextSess + 1] =
                          [NoSession EXCEPT !.key = GocKey, !.lastActivity = now,
                                            !.createdAt = now]]
            /\ sessions' = [sessions EXCEPT ![GocKey] = nextSess + 1]
            /\ gret' = [gret EXCEPT ![p] = [sid |-> nextSess + 1, isNew |-> TRUE,
                                           err |-> FALSE]]

\* under the write lock: the second lookup (found: UpdateActivity, return false);
\* else net.DialTimeout (error: return it), the new Session is inserted and
\* returned with is_new = true; the deferred Unlock
GocCreate(p, dialOk) ==
    /\ gpc[p] = "locked"
    /\ gmu = p
    /\ gmu' = 0
    /\ gpc' = [gpc EXCEPT ![p] = "done"]
    /\ IF sessions[GocKey] # 0
       THEN /\ sess' = [sess EXCEPT ![sessions[GocKey]].lastActivity = now]
            /\ gret' = [gret EXCEPT ![p] = [sid |-> sessions[GocKey], isNew |-> FALSE,
                                           err |-> FALSE]]
            /\ UNCHANGED <<sessions, nextSess>>
       ELSE IF ~dialOk
       THEN /\ gret' = [gret EXCEPT ![p] = [sid |-> 0, isNew |-> FALSE, err |-> TRUE]]
            /\ UNCHANGED <<sessions, sess, nextSess>>
       ELSE /\ nextSess < MaxSess
            /\ nextSess' = nextSess + 1
            /\ sess' = [sess EXCEPT ![nextSess + 1] =
                          [NoSession EXCEPT !.key = GocKey, !.lastActivity = now,
                                            !.createdAt = now]]
            /\ sessions' = [sessions EXCEPT ![GocKey] = nextSess + 1]
            /\ gret' = [gret EXCEPT ![p] = [sid |-> nextSess + 1, isNew |-> TRUE,
                                           err |-> FALSE]]

GocStep ==
    \/ \E p \in Callers : GocLookup(p)
    \/ \E p \in Callers : GocLock(p)
    \/ \E p \in Callers, d \in BOOLEAN : GocCreate(p, d)

GocNext ==
    GocStep /\ UNCHANGED <<now, cfg, limVars, histVars, lsnVars, tcpVars, mgrVars,
                           ucfg, hpc, janitorStopped, ugauge,
                           admVars, fnVars, aclVars, bootVars, statVars, raceVars,
                           perVars>>

GocSpec == UdpInit /\ [][GocNext]_vars

\* the calls that returned a session
Served == {p \in Callers : gpc[p] = "done" /\ ~gret[p].err}

\* C25: at any moment the table holds at most one session for the address and as
\* many upstream sockets were dialed; the calls that returned a session returned
\* that one, and exactly one of them (if any) returned is_new = true.
C25_OneSessionPerKey ==
    /\ nextSess <= 1
    /\ sessions[GocKey] = nextSess
    /\ \A p \in Served : gret[p].sid = 1 /\ sessions[GocKey] = 1
    /\ Served # {} => Cardinality({p \in Served : gret[p].isNew}) = 1

\* C25 witness: all the concurrent calls have returned the one session, one of
\* them as new.
C25_Witness ==
    /\ Served = Callers
    /\ nextSess = 1
    /\ \A p \in Callers : gret[p].sid = 1
    /\ Cardinality({p \in Callers : gret[p].isNew}) = 1


\* the sessions that AllowConnection rejected: Remove was called for them and they
\* were never admitted
RejectedSessions == {i \in Created : ~sess[i].admitted /\ sess[i].removeCalls >= 1}

\* C26: a session rejected by AllowConnection is destroyed: it is out of the table
\* and cancelled, its upstream socket is closed, it has no open event, no reader
\* and no forwarded byte, and it does not count in connections_active.
C26_RejectedSessionDestroyed ==
    \A i \in RejectedSessions :
        /\ sess[i].leftAt >= 0 /\ sess[i].cancelled
        /\ sessions[sess[i].key] # i
        /\ sess[i].openN = 0 /\ sess[i].rpc = "none" /\ sess[i].bytes = 0
        /\ sess[i].closed


\* ---------------------------------------------------------------------------
\* A datagram denied by the bandwidth limiter (HandlePacket, udp_proxy.go 347-372)

\* HandlePacket's last step for a datagram that AllowBandwidth denies
DeniedForwardStep ==
    /\ hpc.pc = "forward"
    /\ hpc'.pc = "idle"
    /\ ~AllowBandwidth(cfg, buckets[KeyIP(sess[hpc.sid].key)], PacketSize, now)[1]

\* C27: when AllowBandwidth denies an inbound datagram, the datagram is not
\* forwarded (the session's byte counter stays) and
\* rate_limit_drops{bandwidth_limit} grows by one, while the session table, the
\* session's socket, reader and counters, and the quotas it holds are unchanged.
C27_DeniedDatagramKeepsSession ==
    [][DeniedForwardStep =>
        /\ bwDrops' = bwDrops + 1
        /\ sessions' = sessions
        /\ sess' = sess
        /\ connections' = connections
        /\ totalConns' = totalConns
        /\ ugauge' = ugauge]_vars

\* a denied datagram was dropped and its session is still served: in the table,
\* socket open, reader running, quota held
C27_Witness ==
    /\ bwDrops = 1
    /\ hpc.pc = "idle"
    /\ \E s \in 1..MaxSess :
        /\ sess[s].key # ""
        /\ sessions[sess[s].key] = s
        /\ ~sess[s].closed
        /\ sess[s].rpc \in {"start", "read"}
        /\ connections[KeyIP(sess[s].key)].count > 0


\* ---------------------------------------------------------------------------
\* The connection events of HandleConnection (tcp_proxy.go 75-183)

\* HandleConnection is past the open event
PastOpen(c) == tpc[c] \in {"dial", "copy", "ret_total", "ret_conn", "done"} /\ admitted[c]

\* the upstream dial of c failed: the copy goroutines never started
DialFailed(c) == closeN[c] > 0 /\ dir[c].c2t = "idle"

\* C28: an admitted TCP connection logs exactly one open event and then exactly
\* one close event, also when the dial fails (the close then carries the dial
\* error); the close carries an error iff some direction ended with a non-EOF
\* error; a connection the allowlist or admission rejected logs neither.
C28_OneOpenThenOneClose ==
    \A c \in Conns :
        /\ closeN[c] <= openN[c] /\ openN[c] <= 1
        /\ openN[c] = (IF PastOpen(c) THEN 1 ELSE 0)
        /\ ~admitted[c] => openN[c] = 0 /\ closeN[c] = 0
        /\ admitted[c] /\ tpc[c] \in {"ret_total", "ret_conn", "done"} => closeN[c] = 1
        /\ admitted[c] /\ tpc[c] \in {"dial", "copy"} => closeN[c] = 0
        /\ closeN[c] = 0 <=> closeErr[c] = "none"
        /\ closeN[c] = 1 =>
              (closeErr[c] = "error"
                  <=> DialFailed(c) \/ "err" \in {dir[c].c2t, dir[c].t2c})

\* one connection closed after a failed dial, another after a copy in which only
\* the target->client direction failed
C28_Witness ==
    \E c, e \in Conns :
        /\ DialFailed(c) /\ closeErr[c] = "error" /\ openN[c] = 1
        /\ tpc[e] = "done" /\ dir[e].c2t = "ok" /\ dir[e].t2c = "err"
        /\ closeErr[e] = "error" /\ closeN[e] = 1


(***************************************************************************)
(* The reclaimer specification: one RateLimitManager with its three        *)
(* limiters and their cleanupLoop goroutines; clients connect, send and    *)
(* disconnect until they fall silent, the clock and the reclaimers go on.  *)
(***************************************************************************)
RecIPs == {"ip1", "ip2"}

\* all three limiters configured, every window 1
RecConfigs ==
    { [NoLimits EXCEPT !.maxConnPerIP = 1, !.connWindow = 1,
                       !.maxAttempts = 1, !.attemptWindow = 1,
                       !.maxBW = 1, !.bwWindow = 1, !.maxTotal = 2, !.action = "drop"] }

\* the time from which the clients generate nothing new; a record written before it
\* is older than 2 x window at MaxTime
QuietFrom == MaxTime - 2

RecInit ==
    /\ now = 0
    /\ cfg \in RecConfigs
    /\ LimitersEmpty
    /\ HistoryEmpty
    /\ allowlist = <<IPs>>
    /\ ListenerNotStarted
    /\ TCPIdle
    /\ ManagerIdle
    /\ ucfg = NoUDP
    /\ UDPIdle
    /\ AuxIdle

\* a client connects: RateLimitManager.AllowConnection(ip)
RecConnect(ip) ==
    LET r == AllowConnection(cfg, attempts, totalConns, connections, ip, now)
    IN  /\ now < QuietFrom
        /\ Len(ValidTimestamps(attempts[ip].timestamps, now, cfg.attemptWindow))
               <= cfg.maxAttempts
        /\ attempts' = r.attempts
        /\ totalConns' = r.total
        /\ connections' = r.connections
        /\ held' = [held EXCEPT ![ip] = IF r.ok THEN @ + 1 ELSE @]
        /\ allowLog' = [allowLog EXCEPT ![ip] = IF r.ok THEN Append(@, now) ELSE @]
        /\ UNCHANGED <<now, cfg, buckets, relIdx, relCalls, firstCall, rejected, lastAllow>>
        /\ UNCHANGED pipeVars

\* an admitted connection ends: ReleaseConnection(ip), ReleaseTotalConnection()
RecDisconnect(ip) ==
    /\ held[ip] > 0
    /\ connections' = ReleaseConnection(cfg, connections, ip)
    /\ totalConns' = ReleaseTotalConnection(cfg, totalConns)
    /\ held' = [held EXCEPT ![ip] = @ - 1]
    /\ UNCHANGED <<now, cfg, attempts, buckets>>
    /\ UNCHANGED <<allowLog, relIdx, relCalls, firstCall, rejected, lastAllow>>
    /\ UNCHANGED pipeVars

\* an admitted connection carries a chunk: AllowBandwidth(ip, 1)
RecTraffic(ip) ==
    /\ now < QuietFrom
    /\ held[ip] > 0
    /\ buckets' = [buckets EXCEPT ![ip] = AllowBandwidth(cfg, @, 1, now)[2]]
    /\ buckets' # buckets
    /\ UNCHANGED <<now, cfg, connections, attempts, totalConns>>
    /\ UNCHANGED <<histVars, pipeVars>>

RecNext ==
    \/ \E ip \in RecIPs : RecConnect(ip)
    \/ \E ip \in RecIPs : RecDisconnect(ip)
    \/ \E ip \in RecIPs : RecTraffic(ip)
    \/ ReclaimConnections
    \/ ReclaimAttempts
    \/ ReclaimBuckets
    \/ LimTick

\* The reclaimers keep ticking: time passes and each cleanupLoop runs its cleanup.
\* What the clients do, disconnecting included, is not fair.
RecSpec ==
    /\ RecInit /\ [][RecNext]_vars
    /\ WF_vars(LimTick)
    /\ WF_vars(ReclaimConnections)
    /\ WF_vars(ReclaimAttempts)
    /\ WF_vars(ReclaimBuckets)

\* ip generates nothing any more and holds no unreleased connection
Quiet(ip) == now >= QuietFrom /\ held[ip] = 0

\* none of the three limiters has a record of ip
Reclaimed(ip) ==
    /\ ~connections[ip].present
    /\ ~attempts[ip].present
    /\ ~buckets[ip].present

\* C29: as long as the reclaimers keep ticking, for every IP that stops
\* generating attempts, connections and traffic and holds no unreleased
\* connection, its record in the connection, attempt and bandwidth limiter is
\* eventually removed from the map.
C29_ExpiredRecordsReclaimed ==
    \A ip \in RecIPs : Quiet(ip) ~> Reclaimed(ip)

\* ip1 connected and sent, fell silent, and has no record left, while ip2 still
\* holds a connection and its record
C29_Witness ==
    /\ Len(allowLog["ip1"]) > 0
    /\ Quiet("ip1") /\ Reclaimed("ip1")
    /\ held["ip2"] > 0 /\ connections["ip2"].present


(***************************************************************************)
(* The reclaimers against the limiter calls.  ConnectionLimiter.Allow      *)
(* looks its entry up (inserting it) under l.mu, unlocks, and updates the  *)
(* entry under entry.mu; cleanup takes l.mu and each entry.mu in between.  *)
(* The shadow records receive every call and no cleanup pass.              *)
(***************************************************************************)
RaceInit ==
    /\ now = 0
    /\ cfg \in RecConfigs
    /\ LimitersEmpty
    /\ HistoryEmpty
    /\ allowlist = <<IPs>>
    /\ ListenerNotStarted
    /\ TCPIdle
    /\ ManagerIdle
    /\ ucfg = NoUDP
    /\ UDPIdle
    /\ AuxIdle

\* Allow, first half: l.mu.Lock, look the entry up or insert a new one, l.mu.Unlock
RaceAllowLookup(ip) ==
    /\ rcall.pc = "idle"
    /\ Len(allowLog[ip]) < MaxAllows
    /\ connections' = [connections EXCEPT ![ip] =
                          IF @.present THEN @ ELSE [NoConnEntry EXCEPT !.present = TRUE]]
    /\ rcall' = [pc |-> "update", ip |-> ip, attached |-> TRUE, entry |-> NoConnEntry]
    /\ UNCHANGED <<now, cfg, attempts, buckets, totalConns, histVars>>
    /\ UNCHANGED <<lsnVars, tcpVars, mgrVars, udpVars, admVars, fnVars, aclVars>>
    /\ UNCHANGED <<bootVars, gocVars, statVars, perVars, shadowConns, shadowAtts, rres>>

\* Allow, second half: entry.mu.Lock, prune, test, append, on the entry looked up
RaceAllowUpdate ==
    /\ rcall.pc = "update"
    /\ LET ip == rcall.ip
           e == IF rcall.attached THEN connections[ip] ELSE rcall.entry
           r == ConnAllow(e, now, cfg.maxConnPerIP, cfg.connWindow)
           sr == ConnAllow(shadowConns[ip], now, cfg.maxConnPerIP, cfg.connWindow)
       IN  /\ connections' = IF rcall.attached
                             THEN [connections EXCEPT ![ip] = r[2]]
                             ELSE connections
           /\ shadowConns' = [shadowConns EXCEPT ![ip] = sr[2]]
           /\ rres' = [kind |-> "allow", ret |-> r[1], shadowRet |-> sr[1],
                       stored |-> rcall.attached]
           /\ held' = [held EXCEPT ![ip] = IF r[1] THEN @ + 1 ELSE @]
           /\ allowLog' = [allowLog EXCEPT ![ip] = IF r[1] THEN Append(@, now) ELSE @]
    /\ rcall' = NoRaceCall
    /\ UNCHANGED <<now, cfg, attempts, buckets, totalConns>>
    /\ UNCHANGED <<relIdx, relCalls, firstCall, rejected, lastAllow>>
    /\ UNCHANGED <<lsnVars, tcpVars, mgrVars, udpVars, admVars, fnVars, aclVars>>
    /\ UNCHANGED <<bootVars, gocVars, statVars, perVars, shadowAtts>>

\* ConnectionLimiter.Release(ip) for an admitted connection
RaceRelease(ip) ==
    /\ held[ip] > 0
    /\ connections' = [connections EXCEPT ![ip] = ConnRelease(@)]
    /\ shadowConns' = [shadowConns EXCEPT ![ip] = ConnRelease(@)]
    /\ held' = [held EXCEPT ![ip] = @ - 1]
    /\ UNCHANGED <<now, cfg, attempts, buckets, totalConns>>
    /\ UNCHANGED <<allowLog, relIdx, relCalls, firstCall, rejected, lastAllow>>
    /\ UNCHANGED <<lsnVars, tcpVars, mgrVars, udpVars, admVars, fnVars, aclVars>>
    /\ UNCHANGED <<bootVars, gocVars, statVars, perVars, rcall, shadowAtts, rres>>

\* AttemptLimiter.RecordAttempt(ip)
RaceAttempt(ip) ==
    /\ Len(ValidTimestamps(attempts[ip].timestamps, now, cfg.attemptWindow))
           <= cfg.maxAttempts
    /\ LET r == RecordAttempt(attempts[ip], now, cfg.maxAttempts, cfg.attemptWindow)
           sr == RecordAttempt(shadowAtts[ip], now, cfg.maxAttempts, cfg.attemptWindow)
       IN  /\ attempts' = [attempts EXCEPT ![ip] = r[2]]
           /\ shadowAtts' = [shadowAtts EXCEPT ![ip] = sr[2]]
           /\ rres' = [kind |-> "attempt", ret |-> r[1], shadowRet |-> sr[1],
                       stored |-> TRUE]
    /\ UNCHANGED <<now, cfg, connections, buckets, totalConns, histVars>>
    /\ UNCHANGED <<lsnVars, tcpVars, mgrVars, udpVars, admVars, fnVars, aclVars>>
    /\ UNCHANGED <<bootVars, gocVars, statVars, perVars, rcall, shadowConns>>

\* ConnectionLimiter.cleanup(): one pass; a deleted entry that an Allow call has
\* looked up stays with that call only
RaceCleanup ==
    /\ connections' = ConnCleanup(connections, now, cfg.connWindow)
    /\ connections' # connections
    /\ rcall' = IF /\ rcall.pc = "update"
                   /\ rcall.attached
                   /\ ConnCleanupDeletes(connections[rcall.ip], now, cfg.connWindow)
                THEN [rcall EXCEPT !.attached = FALSE, !.entry = connections[rcall.ip]]
                ELSE rcall
    /\ UNCHANGED <<now, cfg, attempts, buckets, totalConns, histVars>>
    /\ UNCHANGED <<lsnVars, tcpVars, mgrVars, udpVars, admVars, fnVars, aclVars>>
    /\ UNCHANGED <<bootVars, gocVars, statVars, perVars, shadowConns, shadowAtts, rres>>

RaceNext ==
    \/ \E ip \in LimIPs : RaceAllowLookup(ip)
    \/ RaceAllowUpdate
    \/ \E ip \in LimIPs : RaceRelease(ip)
    \/ \E ip \in LimIPs : RaceAttempt(ip)
    \/ \E ip \in LimIPs : RecTraffic(ip)
    \/ RaceCleanup
    \/ ReclaimAttempts
    \/ ReclaimBuckets
    \/ LimTick

RaceSpec == RaceInit /\ [][RaceNext]_vars

\* the time of the record's most recent entry is less than 2 x window ago
Younger(last, window) == now - last < 2 * window

\* what the next pass of each reclaimer removes
RemovedOnlyWhenStale ==
    \A ip \in IPs :
        /\ ConnCleanupDeletes(connections[ip], now, cfg.connWindow)
              => connections[ip].count = 0
        /\ AttemptCleanupDeletes(attempts[ip], now, cfg.attemptWindow)
              => \/ attempts[ip].timestamps = <<>>
                 \/ ~Younger(attempts[ip].timestamps[Len(attempts[ip].timestamps)],
                             cfg.attemptWindow)
        /\ BandwidthCleanupDeletes(buckets[ip], now, cfg.bwWindow)
              => \/ buckets[ip].entries = <<>>
                 \/ ~Younger(buckets[ip].entries[Len(buckets[ip].entries)].timestamp,
                             cfg.bwWindow)

\* the last Allow or RecordAttempt returned what it returns with no cleanup pass
ResultAsWithoutCleanup == rres.kind # "none" => rres.ret = rres.shadowRet

\* C30: ConnectionLimiter.cleanup never removes a record whose count is above
\* zero, the attempt and bandwidth reclaimers never remove a record whose most
\* recent entry is younger than 2 x window, and a reclamation pass never changes
\* the result of a later Allow or RecordAttempt for that IP.
C30_ReclaimOnlyWhenIrrelevant ==
    /\ RemovedOnlyWhenStale
    /\ ResultAsWithoutCleanup


(***************************************************************************)
(* Session.ShouldLogPeriodic / UpdatePeriodicLog (package session)         *)
(***************************************************************************)
\* bound: bytes one session transfers in each direction
MaxPerBytes == 2
\* the thresholds a caller passes: log_interval and log_bytes of the configuration
PerIntervals == {-1, 0, 1, 2}
PerByteThresholds == {-1, 0, 1, 2}

PerInit ==
    /\ now = 0
    /\ cfg = NoLimits
    /\ LimitersEmpty
    /\ HistoryEmpty
    /\ allowlist = <<IPs>>
    /\ ListenerNotStarted
    /\ TCPIdle
    /\ ManagerIdle
    /\ ucfg = NoUDP
    /\ UDPIdle
    /\ AuxIdle

PerUnchanged ==
    UNCHANGED <<now, cfg, limVars, histVars, lsnVars, tcpVars, mgrVars, udpVars,
                admVars, fnVars, aclVars, bootVars, gocVars, raceVars, statVars>>

\* AddBytesSent(1)
PerAddBytesSent ==
    /\ plog.sent < MaxPerBytes
    /\ plog' = [plog EXCEPT !.sent = @ + 1, !.kind = "add"]
    /\ PerUnchanged

\* AddBytesReceived(1)
PerAddBytesReceived ==
    /\ plog.recv < MaxPerBytes
    /\ plog' = [plog EXCEPT !.recv = @ + 1, !.kind = "add"]
    /\ PerUnchanged

\* a call of ShouldLogPeriodic(i, b)
PerShould(i, b) ==
    /\ plog' = [plog EXCEPT !.kind = "should", !.at = now, !.interval = i, !.bytes = b,
                            !.ret = ShouldLogPeriodic(plog, i, b, now)]
    /\ PerUnchanged

\* a call of UpdatePeriodicLog()
PerUpdate ==
    /\ plog' = [UpdatePeriodicLog(plog, now) EXCEPT !.kind = "update", !.at = now]
    /\ PerUnchanged

PerNext ==
    \/ PerAddBytesSent
    \/ PerAddBytesReceived
    \/ \E i \in PerIntervals, b \in PerByteThresholds : PerShould(i, b)
    \/ PerUpdate
    \/ LimTick

PerSpec == PerInit /\ [][PerNext]_vars

\* C31: ShouldLogPeriodic(interval, bytes) is true iff (interval > 0 and
\* now - last_periodic_log >= interval) or (bytes > 0 and bytes_sent + bytes_recv -
\* bytes_at_last_periodic_log >= bytes); right after UpdatePeriodicLog, with no time
\* elapsed and no further bytes, it is false for every positive interval and byte
\* threshold; UpdatePeriodicLog sets both watermarks together.
C31_PeriodicPredicate ==
    /\ plog.kind = "should" =>
          (plog.ret <=>
              \/ plog.interval > 0 /\ plog.at - plog.last >= plog.interval
              \/ plog.bytes > 0 /\ plog.sent + plog.recv - plog.lastBytes >= plog.bytes)
    /\ plog.kind = "update" =>
          /\ plog.last = plog.at /\ plog.lastBytes = plog.sent + plog.recv
          /\ \A i \in PerIntervals, b \in PerByteThresholds :
                i > 0 /\ b > 0 => ~ShouldLogPeriodic(plog, i, b, plog.at)

\* the predicate returned true on the interval alone, exactly at the interval, after
\* an earlier UpdatePeriodicLog moved the watermarks
C31_Witness ==
    /\ plog.kind = "should" /\ plog.ret
    /\ plog.last > 0 /\ plog.lastBytes > 0
    /\ plog.interval > 0 /\ plog.at - plog.last = plog.interval
    /\ plog.sent + plog.recv - plog.lastBytes < plog.bytes


\* C32: under any interleaving of a cleanup pass with Allow for the same IP,
\* cleanup never detaches a record that a call has looked up and is about to
\* update, and what the call records is stored in the record the map holds
\* afterwards.
C32_CleanupNeverDetaches ==
    /\ rcall.pc = "update" => rcall.attached
    /\ rres.kind # "none" /\ rres.ret => rres.stored


\* ---------------------------------------------------------------------------
\* A late cleanupSession (udp_proxy.go 483-496, SessionManager.Remove)

\* cleanupSession(s) runs for a session s that has left the table while a newer
\* session holds its source address
LateCleanupStep(s) ==
    /\ sess[s].key # ""
    /\ sessions[sess[s].key] \notin {0, s}
    /\ hpc.pc # "admit"
    /\ sess'[s].removeCalls = sess[s].removeCalls + 1

\* C33: cleanupSession(S) only removes S itself: when S has left the table and a
\* newer session for the same source address exists, the late cleanup of S leaves
\* the newer session in the table and not cancelled, releases nothing and emits no
\* close event.
C33_LateCleanupRemovesNothing ==
    [][\A s \in 1..MaxSess :
          LateCleanupStep(s) =>
              /\ sessions' = sessions
              /\ ~sess'[sessions[sess[s].key]].cancelled
              /\ sess'[s].relConnN = sess[s].relConnN
              /\ sess'[s].relTotalN = sess[s].relTotalN
              /\ sess'[s].closeN = sess[s].closeN
              /\ connections' = connections
              /\ totalConns' = totalConns]_vars


\* ---------------------------------------------------------------------------
\* The total-connections counter of the UDP listener (part_006 109-135)

\* ReleaseTotalConnection calls made so far; successful admissions made so far
RECURSIVE ReleasesUpTo(_)
ReleasesUpTo(n) == IF n = 0 THEN 0 ELSE sess[n].relTotalN + ReleasesUpTo(n - 1)
TotalReleases == ReleasesUpTo(nextSess)
TotalAdmissions == Cardinality({i \in Created : sess[i].admitted})

\* C34: with max_total_connections > 0 the total-connections counter is never
\* negative: the ReleaseTotalConnection calls made so far never exceed the
\* successful admissions made so far.
C34_TotalNeverNegative ==
    cfg.maxTotal > 0 =>
        /\ totalConns >= 0
        /\ TotalReleases <= TotalAdmissions


(***************************************************************************)
(* The admission race between two source addresses: as the admission      *)
(* specification, with the two concurrent AllowConnection calls coming     *)
(* from different IPs.                                                      *)
(***************************************************************************)
\* the source addresses of the two racing calls
RaceIPs == [c \in Conns |-> IF c = "c1" THEN "ip1" ELSE "ip2"]

\* a connection from each address is accepted and passes the ACL: both handlers are
\* about to call AllowConnection; the limiters' state is remembered
BeginRaceTwoIPs ==
    /\ ~snap.taken
    /\ snap' = [taken |-> TRUE, calls |-> snap.calls, attempts |-> attempts,
                total |-> totalConns, connections |-> connections]
    /\ tpc' = [c \in Conns |-> "attempt"]
    /\ tip' = RaceIPs
    /\ UNCHANGED <<now, cfg, limVars, histVars, fnVars, aclVars, moreVars, lsnVars, mgrVars, udpVars>>
    /\ UNCHANGED <<dir, admitted, relConnN, relTotalN, openN, closeN, sockClosed, gauge>>

AdmTwoNext ==
    \/ \E ip \in PrepIPs : PrepAllow(ip)
    \/ \E ip \in PrepIPs : PrepRelease(ip)
    \/ AdmTick
    \/ BeginRaceTwoIPs
    \/ \E c \in Conns : TcpAttempt(c)
    \/ \E c \in Conns : TcpTotal(c)
    \/ \E c \in Conns : TcpTotalUndo(c)
    \/ \E c \in Conns : TcpPerIP(c)
    \/ \E c \in Conns : TcpRollback(c)

AdmTwoSpec == AdmInit /\ [][AdmTwoNext]_vars

\* the call of d has incremented the total counter and connLimiter.Allow will admit it
WillBeAdmitted(d) ==
    /\ tpc[d] = "perip"
    /\ ConnAllow(connections[tip[d]], now, cfg.maxConnPerIP, cfg.connWindow)[1]

\* the admissions really held: those held before the race and the racing calls that
\* are admitted (no connection is released during the race)
ReallyHeld ==
    snap.total + Cardinality({d \in Conns : (tpc[d] = "open" /\ admitted[d])
                                               \/ WillBeAdmitted(d)})

\* C35: AllowConnection rejects a call on the total-connection limit only if
\* max_total_connections admissions are really held during the call: the
\* transient increment of a concurrent call that is itself then rejected never
\* causes another IP's call to be rejected.
C35_TotalRejectionOnlyWhenFull ==
    \A c \in Conns :
        (snap.taken /\ tpc[c] = "total_undo") => ReallyHeld >= cfg.maxTotal


(***************************************************************************)
(* The lifecycle events of the UDP sessions of a listener that logs the    *)
(* start, the periodic updates (every byte) and the close of a session:    *)
(* the receive loop, the session readers (whose handling of a datagram     *)
(* read from upstream is a step of its own, as it runs concurrently with   *)
(* the receive loop) and the janitor                                       *)
(***************************************************************************)
UDPEventConfigs ==
    { [sessionTimeout |-> 1, logStart |-> TRUE, logClose |-> TRUE,
       minLogBytes |-> 0, minLogDuration |-> 0,
       periodicInterval |-> 0, periodicBytes |-> PacketSize, present |-> TRUE] }

UDPEventLimits ==
    { [NoLimits EXCEPT !.maxConnPerIP = 1, !.connWindow = 2, !.maxTotal = 2,
                       !.maxBW = 2, !.bwWindow = 2, !.action = "drop"] }

UdpEventInit ==
    /\ now = 0
    /\ cfg \in UDPEventLimits
    /\ LimitersEmpty
    /\ HistoryEmpty
    /\ allowlist = <<{"ip1", "ip2"}>>
    /\ ListenerNotStarted
    /\ TCPIdle
    /\ ManagerIdle
    /\ ucfg \in UDPEventConfigs
    /\ UDPIdle
    /\ AuxIdle

UdpEventNext ==
    \/ UdpStart
    \/ \E k \in {"ip1:1", "ip1:2"} : UdpRecv(k, TRUE)
    \/ UdpAdmit
    \/ \E w \in WriteResults : UdpForward(w)
    \/ \E s \in 1..MaxSess : ReaderArm(s)
    \/ \E s \in 1..MaxSess : ReaderTimeout(s)
    \/ \E s \in 1..MaxSess : ReaderReadErr(s)
    \/ \E s \in 1..MaxSess : ReaderGot(s)
    \/ \E s \in 1..MaxSess, w \in WriteResults : ReaderDeliver(s, w)
    \/ SessionCleanup
    \/ UdpTick

UdpEventSpec == UdpEventInit /\ [][UdpEventNext]_vars

\* C36: the lifecycle events of one UDP session are ordered open, then zero or
\* more update, then close: no update event is emitted for a session after its
\* close event, and no close (and no update) is emitted before its open.
C36_EventsOrdered ==
    \A s \in Created :
        /\ ~sess[s].lateUpd
        /\ sess[s].closeN > 0 => sess[s].openN > 0
        /\ sess[s].updN > 0 => sess[s].openN > 0


(***************************************************************************)
(* UDPListener.Stop against a receive loop whose reading of a datagram and *)
(* whose handling of it are two steps: Stop's cancel, conn.Close and       *)
(* SessionManager.Close can run between ReadFromUDP and HandlePacket       *)
(***************************************************************************)
\* readLoop: ctx is not done at the top of the loop and ReadFromUDP returns a
\* datagram (n > 0) from the open socket
UdpRead ==
    /\ listening
    /\ loopPc = "run"
    /\ hpc.pc = "idle"
    /\ hpc' = [pc |-> "handle", sid |-> 0]
    /\ UNCHANGED <<ucfg, sessions, sess, nextSess, janitorStopped, ugauge>>
    /\ UNCHANGED <<now, cfg, limVars, histVars, lsnVars, tcpVars, mgrVars, auxVars>>

\* readLoop calls HandlePacket for the datagram it has read, whose source is k:
\* the ACL check, then SessionManager.GetOrCreate
UdpHandle(k, dialOk) ==
    /\ hpc.pc = "handle"
    /\ IF ~IsAllowed(allowlist, KeyIP(k))
       THEN /\ aclDrops < MaxAclDrops
            /\ aclDrops' = aclDrops + 1
            /\ aclDenied' = aclDenied + 1
            /\ hpc' = [pc |-> "idle", sid |-> 0]
            /\ UNCHANGED <<ucfg, sessions, sess, nextSess, janitorStopped, ugauge>>
       ELSE /\ UNCHANGED <<aclDrops, aclDenied>>
            /\ IF sessions[k] = 0 /\ ~dialOk
               THEN /\ hpc' = [pc |-> "idle", sid |-> 0]
                    /\ UNCHANGED <<ucfg, sessions, sess, nextSess, janitorStopped, ugauge>>
               ELSE GetOrCreate(k, TRUE)
    /\ UNCHANGED <<now, cfg, limVars, histVars, lsnVars, tcpVars, mgrVars>>
    /\ UNCHANGED <<admVars, fnVars, aclEntries, aclLast, moreVars>>

\* the sources of the datagrams (one allowed, one denied by the ACL) and the
\* timeout GracefulShutdown is called with
StopKeys == {"ip1:1", "ip3:1"}
StopTimeout == 1

UdpStopNext ==
    \/ UdpStart
    \/ UdpRead
    \/ \E k \in StopKeys, d \in BOOLEAN : UdpHandle(k, d)
    \/ UdpAdmit
    \/ \E w \in WriteResults : UdpForward(w)
    \/ \E s \in 1..MaxSess : ReaderArm(s)
    \/ \E s \in 1..MaxSess : ReaderTimeout(s)
    \/ \E s \in 1..MaxSess : ReaderReadErr(s)
    \/ \E s \in 1..MaxSess, w \in WriteResults : ReaderRecv(s, w)
    \/ GsBeginUDP(StopTimeout)
    \/ SessionManagerClose
    \/ ReadLoopExit
    \/ GsStopReturnsUDP
    \/ UdpTick

UdpStopSpec == UdpInit /\ [][UdpStopNext]_vars

\* UDPListener.Stop has returned
StopReturned == mpc \in {"select", "returned"}

\* C37: after UDPListener.Stop has returned, the session table is empty, every
\* upstream socket that was opened is closed, and the receive loop, which alone
\* creates and admits sessions, has returned and handles no datagram.
C37_StoppedListenerHoldsNothing ==
    StopReturned =>
        /\ \A k \in Keys : sessions[k] = 0
        /\ \A s \in Created : sess[s].closed
        /\ loopPc = "done" /\ hpc.pc = "idle"


(***************************************************************************)
(* UDP listeners with and without the optional udp block: without it the   *)
(* listener takes the default session timeout, and p.config.UDP is nil     *)
(***************************************************************************)
\* the configuration of a listener whose udp block is absent
AbsentUDP == [NoUDP EXCEPT !.sessionTimeout = 1, !.present = FALSE]

UdpBlockInit ==
    /\ now = 0
    /\ cfg \in UDPLimits
    /\ LimitersEmpty
    /\ HistoryEmpty
    /\ allowlist = <<{"ip1", "ip2"}>>
    /\ ListenerNotStarted
    /\ TCPIdle
    /\ ManagerIdle
    /\ ucfg \in UDPConfigs \cup {AbsentUDP}
    /\ UDPIdle
    /\ AuxIdle

UdpBlockSpec == UdpBlockInit /\ [][UdpRemoveNext]_vars

\* C38: for a UDP listener whose configuration omits the udp block, handling an
\* admissible datagram from a new source completes without a fault: HandlePacket
\* never ends in a panic.
C38_NoFaultWithoutUdpBlock == ~ucfg.present => hpc.pc # "panic"


(***************************************************************************)
(* The bandwidth violation log (checked under BwSpec)                      *)
(***************************************************************************)
\* C39: a bandwidth violation log is emitted for a chunk only if that chunk took
\* the IP over the limit, that is only if the usage before the chunk plus the
\* chunk's size exceeded max when AllowBandwidth decided on it; a chunk that fitted
\* and was recorded produces no violation log in any mode.
C39_ViolationLogOnlyWhenOver ==
    lastBw.called /\ lastBw.logged => LastOver

====
